---- MODULE Spec2Model ----
(***************************************************************************)
(* A model of PetMate's veterinary hospital locator (src/src/vet_locator.py, *)
(* class VetLocator): the loaded hospital collection, the search            *)
(* (get_nearby_hospitals), the two sorts, the rating filter and the         *)
(* recommendation (get_recommendations).                                    *)
(*                                                                         *)
(* Encoding of Python values                                                *)
(*   float        an integer: kilometres and ratings in 1/100 (4.5 is 450,  *)
(*                50 km is 5000), degrees in 1/1000000; the non-finite      *)
(*                floats are the integers PosInf and NaN, and FloatLT,      *)
(*                FloatLE, FloatGT compare as IEEE floats do (every         *)
(*                comparison with NaN is false)                             *)
(*   None / omitted argument   the empty sequence <<>>; a supplied value v  *)
(*                is <<v>>                                                  *)
(*   dict         a function from the keys present to their values          *)
(*   list, tuple  a sequence                                                *)
(***************************************************************************)
EXTENDS Integers, Sequences, FiniteSets, TLC

\* ------------------------------------------------------------------ bounds
\* The longest hospital collection the engine is constructed with.
MaxHospitals == 3
\* The callers that search one instance at the same time.
MaxCallers == 2

\* --------------------------------------------------------- float encoding
PosInf == 2000000000
NaN == PosInf + 1
\* A tuple component that is no number at all (the str "a").
NotANumber == PosInf + 2

IsFinite(x) == x < PosInf
FloatLT(a, b) == a # NaN /\ b # NaN /\ a < b
FloatLE(a, b) == a # NaN /\ b # NaN /\ a <= b
FloatGT(a, b) == FloatLT(b, a)

\* An optional argument: None (or omitted) is <<>>, the value v is <<v>>.
None == <<>>
Some(v) == <<v>>

\* dict.get(key, default)
Get(d, key, default) == IF key \in DOMAIN d THEN d[key] ELSE default

\* ---------------------------------------------------------- class constants
MAX_SEARCH_RADIUS == 10000
DEFAULT_SEARCH_RADIUS == 5000
DEFAULT_MIN_RATING == 400
\* The default of get_recommendations' max_results parameter.
DEFAULT_MAX_RESULTS == 5

\* ----------------------------------------------------------- coordinates
\* The coordinates the model places users and hospitals at, as
\* <<latitude, longitude>> in microdegrees: Boston, Cambridge, three points
\* due north of Boston (1.00, 50.00 and 100.00 km from it), New York, the
\* antipode of Boston and the North Pole.
Points ==
    << <<42360100, -71058900>>,
       <<42373600, -71109700>>,
       <<42369100, -71058900>>,
       <<42809750, -71058900>>,
       <<43259400, -71058900>>,
       <<40712800, -74006000>>,
       <<-42360100, 108941100>>,
       <<90000000, 0>> >>

\* The source's arithmetic with lon2 + lon1 written for lon2 - lon1,
\* evaluated at every pair of Points.
HaversineTable_LongitudesAdded ==
    << <<986075, 986131, 985986, 981620, 977165, 1013292, 1015433, 529732>>,
       <<986131, 986186, 986042, 981674, 977218, 1013338, 1015378, 529581>>,
       <<985986, 986042, 985897, 981531, 977076, 1013202, 1015523, 529631>>,
       <<981620, 981674, 981531, 977157, 972694, 1008788, 1019889, 524732>>,
       <<977165, 977218, 977076, 972694, 968223, 1004283, 1024344, 519732>>,
       <<1013292, 1013338, 1013202, 1008788, 1004283, 1040187, 988217, 548049>>,
       <<1015433, 1015378, 1015523, 1019889, 1024344, 988217, 986075, 1471777>>,
       <<529732, 529581, 529631, 524732, 519732, 548049, 1471777, 0>> >>

\* The source's arithmetic with cos(lat1_rad) written twice, for
\* cos(lat1_rad) * cos(lat2_rad), evaluated at every pair of Points (NaN
\* where that arithmetic leaves the domain of asin).
HaversineTable_FirstLatitudeTwice ==
    << <<0, 444, 100, 5000, 10000, 30363, 2001509, 803285>>,
       <<443, 0, 420, 4868, 9858, 30119, 1987701, 803369>>,
       <<100, 420, 0, 4900, 9900, 30420, 1990240, 803137>>,
       <<5000, 4867, 4900, 0, 5000, 33492, 1921768, 795873>>,
       <<10000, 9858, 9900, 5000, 0, 37034, 1888615, 788455>>,
       <<30863, 30610, 30923, 34070, 37670, 0, NaN, 848947>>,
       <<2001509, NaN, NaN, NaN, NaN, 1846880, 0, NaN>>,
       <<529732, 529581, 529631, 524732, 519732, 548049, 1471777, 0>> >>

\* The Haversine distance of the source, round(6371 * c, 2), evaluated by the
\* source's own arithmetic at every pair of Points, in 1/100 km: row i,
\* column j is calculate_distance(Points[i], Points[j]).
HaversineTable ==
    << <<0, 444, 100, 5000, 10000, 30611, 2001509, 529732>>,
       <<444, 0, 420, 4868, 9858, 30362, 2001065, 529581>>,
       <<100, 420, 0, 4900, 9900, 30669, 2001409, 529631>>,
       <<5000, 4868, 4900, 0, 5000, 33777, 1996509, 524732>>,
       <<10000, 9858, 9900, 5000, 0, 37347, 1991509, 519732>>,
       <<30611, 30362, 30669, 33777, 37347, 0, 1970898, 548049>>,
       <<2001509, 2001065, 2001409, 1996509, 1991509, 1970898, 0, 1471777>>,
       <<529732, 529581, 529631, 524732, 519732, 548049, 1471777, 0>> >>

PointIndex(loc) == CHOOSE i \in 1..Len(Points) : Points[i] = loc

\* calculate_distance(location1, location2): a distance in 1/100 km, NaN, or
\* the exception the arithmetic raises. math.radians raises TypeError on a
\* component that is no number; math.sin raises ValueError ("math domain
\* error") on an infinite argument; NaN propagates through to round().
\* The result is [exc |-> "none", d |-> distance] or [exc |-> error, d |-> NaN].
calculate_distance(location1, location2) ==
    LET comps == <<location1[1], location1[2], location2[1], location2[2]>>
    IN  IF \E i \in 1..4 : comps[i] = NotANumber
          THEN [exc |-> "TypeError", d |-> NaN]
        ELSE IF \E i \in 1..4 : comps[i] = PosInf
          THEN [exc |-> "MathDomainError", d |-> NaN]
        ELSE IF \E i \in 1..4 : comps[i] = NaN
          THEN [exc |-> "none", d |-> NaN]
        ELSE [exc |-> "none",
              d |-> HaversineTable[PointIndex(location1)][PointIndex(location2)]]

\* str.lower() on the specialty tags the datasets use.
Lower(s) ==
    CASE s = "Canine" -> "canine"
      [] s = "FELINE" -> "feline"
      [] s = "General" -> "general"
      [] OTHER -> s

\* ------------------------------------------------------------- the dataset
\* The hospital records datasets are made of. is_emergency and specialties
\* may be missing from a record (the source reads both with dict.get).
HospitalPool ==
    { [hospital_id |-> 1, latitude |-> 42360100, longitude |-> -71058900,
       rating |-> 400, is_emergency |-> TRUE, specialties |-> <<"Canine">>],
      [hospital_id |-> 2, latitude |-> 42369100, longitude |-> -71058900,
       rating |-> 450, is_emergency |-> FALSE, specialties |-> <<"general">>],
      [hospital_id |-> 3, latitude |-> 42809750, longitude |-> -71058900,
       rating |-> 500],
      [hospital_id |-> 4, latitude |-> 43259400, longitude |-> -71058900,
       rating |-> 100, is_emergency |-> TRUE,
       specialties |-> <<"exotic", "FELINE">>],
      [hospital_id |-> 5, latitude |-> 42369100, longitude |-> -71058900,
       rating |-> 450, is_emergency |-> TRUE, specialties |-> <<>>] }

\* A collection of six records, more than the five a recommendation returns
\* by default: the pool and a hospital in Cambridge, in no particular order.
FullDataset ==
    << [hospital_id |-> 3, latitude |-> 42809750, longitude |-> -71058900,
        rating |-> 500],
       [hospital_id |-> 6, latitude |-> 42373600, longitude |-> -71109700,
        rating |-> 400, is_emergency |-> FALSE,
        specialties |-> <<"feline", "canine">>],
       [hospital_id |-> 2, latitude |-> 42369100, longitude |-> -71058900,
        rating |-> 450, is_emergency |-> FALSE, specialties |-> <<"general">>],
       [hospital_id |-> 4, latitude |-> 43259400, longitude |-> -71058900,
        rating |-> 100, is_emergency |-> TRUE,
        specialties |-> <<"exotic", "FELINE">>],
       [hospital_id |-> 5, latitude |-> 42369100, longitude |-> -71058900,
        rating |-> 450, is_emergency |-> TRUE, specialties |-> <<>>],
       [hospital_id |-> 1, latitude |-> 42360100, longitude |-> -71058900,
        rating |-> 400, is_emergency |-> TRUE, specialties |-> <<"Canine">>] >>

\* The collections _load_hospitals can return: every list of at most
\* MaxHospitals distinct records of the pool, in every order, and the
\* collection of six.
Datasets ==
    { s \in UNION { [1..n -> HospitalPool] : n \in 0..MaxHospitals } :
        \A i, j \in DOMAIN s : i # j => s[i] # s[j] }
    \cup { FullDataset }

\* ---------------------------------------------------------- the arguments
\* user_location: the Python type of the argument and its items.
Tuple(items) == [type |-> "tuple", items |-> items]
Locations ==
    { Tuple(Points[1]), Tuple(Points[2]),
      \* the str "ab": two items, but no tuple
      [type |-> "str", items |-> <<NotANumber, NotANumber>>],
      [type |-> "list", items |-> Points[1]],
      Tuple(<<42360100, -71058900, 0>>),
      Tuple(<<NotANumber, NotANumber>>),
      Tuple(<<NaN, -71058900>>),
      Tuple(<<PosInf, -71058900>>) }

Radii == { None, Some(0), Some(100), Some(5000), Some(10000), Some(10100) }
MinRatings == { None, Some(50), Some(100), Some(400), Some(500), Some(600) }
EmergencyFlags == { None, Some(TRUE), Some(FALSE) }
PetTypes == { None, Some("dog"), Some("cat"), Some("bird"), Some("Dog") }

\* -------------------------------------------------- get_nearby_hospitals
\* isinstance(user_location, tuple) and len(user_location) == 2
LocationAccepted(user_location) ==
    user_location.type = "tuple" /\ Len(user_location.items) = 2

\* The default taken for every falsy radius ("search_radius or DEFAULT"): an
\* explicit radius of 0 becomes 50.
RadiusOrDefault_Falsy(search_radius) ==
    IF search_radius = None \/ search_radius = Some(0)
      THEN DEFAULT_SEARCH_RADIUS ELSE search_radius[1]

\* search_radius = DEFAULT_SEARCH_RADIUS if search_radius is None
RadiusOrDefault(search_radius) ==
    IF search_radius = None THEN DEFAULT_SEARCH_RADIUS ELSE search_radius[1]

\* min_rating = DEFAULT_MIN_RATING if min_rating is None
RatingOrDefault(min_rating) ==
    IF min_rating = None THEN DEFAULT_MIN_RATING ELSE min_rating[1]

\* The bounds compared with < : the radii 1 and 100 are refused.
RadiusAccepted_Exclusive(radius) ==
    FloatLT(100, radius) /\ FloatLT(radius, MAX_SEARCH_RADIUS)

\* 1 <= search_radius <= MAX_SEARCH_RADIUS
RadiusAccepted(radius) == FloatLE(100, radius) /\ FloatLE(radius, MAX_SEARCH_RADIUS)

\* The upper bound compared with < : the rating 5.0 is refused.
RatingAccepted_UpperExclusive(rating) ==
    FloatLE(100, rating) /\ FloatLT(rating, 500)

\* 1.0 <= min_rating <= 5.0
RatingAccepted(rating) == FloatLE(100, rating) /\ FloatLE(rating, 500)

\* The validation at the head of get_nearby_hospitals: "ok" or the ValueError
\* raised, named as the specification names it (InvalidLocation: "Location
\* must be a tuple ..."; InvalidRadius: "Search radius must be between ...";
\* InvalidRating: "Rating must be between ...").
Validate(user_location, search_radius, min_rating) ==
    IF ~LocationAccepted(user_location) THEN "InvalidLocation"
    ELSE IF ~RadiusAccepted(RadiusOrDefault(search_radius)) THEN "InvalidRadius"
    ELSE IF ~RatingAccepted(RatingOrDefault(min_rating)) THEN "InvalidRating"
    ELSE "ok"

\* The comparison turned round: the records within the radius are dropped.
BeyondRadius_Reversed(distance, search_radius) ==
    FloatLT(distance, search_radius)

\* The comparison written >= : a record exactly at the radius is dropped.
BeyondRadius_AtOrBeyond(distance, search_radius) ==
    FloatLE(search_radius, distance)

\* if distance > search_radius: continue
BeyondRadius(distance, search_radius) == FloatGT(distance, search_radius)

\* The comparison turned round: the records rated above the threshold are
\* dropped.
BelowRating_Reversed(hospital, min_rating) ==
    FloatGT(hospital["rating"], min_rating)

\* if hospital["rating"] < min_rating: continue
BelowRating(hospital, min_rating) == FloatLT(hospital["rating"], min_rating)

\* The flag read without its default (hospital.get("is_emergency")): a
\* record that carries no flag matches neither filter.
EmergencyMismatch_NoDefault(hospital, is_emergency) ==
    /\ is_emergency # None
    /\ \/ "is_emergency" \notin DOMAIN hospital
       \/ hospital["is_emergency"] # is_emergency[1]

\* if is_emergency is not None and
\*    hospital.get("is_emergency", False) != is_emergency: continue
EmergencyMismatch(hospital, is_emergency) ==
    /\ is_emergency # None
    /\ Get(hospital, "is_emergency", FALSE) # is_emergency[1]

\* The specialties compared as they are spelled, without lower().
PetSpecialties_CaseSensitive(hospital) ==
    LET specialties == Get(hospital, "specialties", <<>>)
    IN  { specialties[i] : i \in DOMAIN specialties }

\* [s.lower() for s in hospital.get("specialties", [])]
PetSpecialties(hospital) ==
    LET specialties == Get(hospital, "specialties", <<>>)
    IN  { Lower(specialties[i]) : i \in DOMAIN specialties }

\* The pet type lower-cased before it is compared: "Dog" filters as "dog".
PetTypeMismatch_LowerCased(hospital, pet_type) ==
    /\ pet_type # None
    /\ LET pet_specialties == PetSpecialties(hospital)
           lowered == IF pet_type[1] = "Dog" THEN "dog" ELSE pet_type[1]
       IN  IF lowered = "dog" /\ "canine" \notin pet_specialties
             THEN "general" \notin pet_specialties
           ELSE IF lowered = "cat" /\ "feline" \notin pet_specialties
             THEN "general" \notin pet_specialties
           ELSE FALSE

\* The pet type check: the record is skipped when pet_type is "dog" and the
\* specialties hold neither "canine" nor "general", or pet_type is "cat" and
\* they hold neither "feline" nor "general".
PetTypeMismatch(hospital, pet_type) ==
    /\ pet_type # None
    /\ LET pet_specialties == PetSpecialties(hospital)
       IN  IF pet_type[1] = "dog" /\ "canine" \notin pet_specialties
             THEN "general" \notin pet_specialties
           ELSE IF pet_type[1] = "cat" /\ "feline" \notin pet_specialties
             THEN "general" \notin pet_specialties
           ELSE FALSE

\* hospital_with_distance = hospital.copy();
\* hospital_with_distance["distance"] = distance
WithDistance(hospital, distance) ==
    [k \in DOMAIN hospital \cup {"distance"} |->
        IF k = "distance" THEN distance ELSE hospital[k]]

\* The pet type check written as the elif of the emergency check: with an
\* emergency filter given, the pet type is not looked at.
ScanRecord_PetTypeInElif(hospital, user_location, search_radius, min_rating, is_emergency, pet_type) ==
    LET dist == calculate_distance(user_location.items,
                    <<hospital["latitude"], hospital["longitude"]>>)
    IN  IF dist.exc # "none"
          THEN [exc |-> dist.exc, keep |-> FALSE, record |-> hospital]
        ELSE IF \/ BeyondRadius(dist.d, search_radius)
                \/ BelowRating(hospital, min_rating)
                \/ EmergencyMismatch(hospital, is_emergency)
                \/ (is_emergency = None /\ PetTypeMismatch(hospital, pet_type))
          THEN [exc |-> "none", keep |-> FALSE, record |-> hospital]
        ELSE [exc |-> "none", keep |-> TRUE,
              record |-> WithDistance(hospital, dist.d)]

\* One iteration of the scan loop on one record: the exception raised by the
\* distance computation, or whether the record is kept and with which
\* annotation.
ScanRecord(hospital, user_location, search_radius, min_rating, is_emergency, pet_type) ==
    LET dist == calculate_distance(user_location.items,
                    <<hospital["latitude"], hospital["longitude"]>>)
    IN  IF dist.exc # "none"
          THEN [exc |-> dist.exc, keep |-> FALSE, record |-> hospital]
        ELSE IF \/ BeyondRadius(dist.d, search_radius)
                \/ BelowRating(hospital, min_rating)
                \/ EmergencyMismatch(hospital, is_emergency)
                \/ PetTypeMismatch(hospital, pet_type)
          THEN [exc |-> "none", keep |-> FALSE, record |-> hospital]
        ELSE [exc |-> "none", keep |-> TRUE,
              record |-> WithDistance(hospital, dist.d)]

\* The scan loop from record i on, nearby_hospitals being the list built so
\* far: the call's outcome. kind is "ok" or the exception, value the list
\* returned (nothing is returned when an exception is raised), scanned the
\* number of records the loop reached.
RECURSIVE Scan(_, _, _, _, _, _, _, _)
Scan(collection, i, nearby_hospitals, user_location, search_radius, min_rating, is_emergency, pet_type) ==
    IF i > Len(collection)
      THEN [kind |-> "ok", value |-> nearby_hospitals, scanned |-> i - 1]
    ELSE LET step == ScanRecord(collection[i], user_location, search_radius,
                                min_rating, is_emergency, pet_type)
         IN  IF step.exc # "none"
               THEN [kind |-> step.exc, value |-> <<>>, scanned |-> i]
             ELSE Scan(collection, i + 1,
                       IF step.keep THEN Append(nearby_hospitals, step.record)
                                    ELSE nearby_hospitals,
                       user_location, search_radius, min_rating,
                       is_emergency, pet_type)

\* A search that finds nothing raises instead of returning the empty list.
get_nearby_hospitals_EmptyIsError(collection, user_location, search_radius, min_rating, is_emergency, pet_type) ==
    LET check == Validate(user_location, search_radius, min_rating)
        found == Scan(collection, 1, <<>>, user_location,
                      RadiusOrDefault(search_radius),
                      RatingOrDefault(min_rating), is_emergency, pet_type)
    IN  IF check # "ok"
          THEN [kind |-> check, value |-> <<>>, scanned |-> 0]
        ELSE IF found.kind = "ok" /\ found.value = <<>>
          THEN [kind |-> "NotFound", value |-> <<>>, scanned |-> found.scanned]
        ELSE found

\* get_nearby_hospitals(user_location, search_radius, min_rating,
\*                      is_emergency, pet_type) on the collection.
get_nearby_hospitals(collection, user_location, search_radius, min_rating, is_emergency, pet_type) ==
    LET check == Validate(user_location, search_radius, min_rating)
    IN  IF check # "ok"
          THEN [kind |-> check, value |-> <<>>, scanned |-> 0]
        ELSE Scan(collection, 1, <<>>, user_location,
                  RadiusOrDefault(search_radius), RatingOrDefault(min_rating),
                  is_emergency, pet_type)

\* The annotation written into the stored record itself: no copy is taken.
AfterCopy_Aliased(hospital, hospital_with_distance) == hospital_with_distance

\* hospital_with_distance = hospital.copy(): what the stored record is after
\* the copy of it has been annotated. The copy is a new dict, so the stored
\* record keeps its keys and values.
AfterCopy(hospital, hospital_with_distance) == hospital

\* The search narrows the collection to the records it kept:
\* self.hospitals is rebound to the filtered list.
CollectionAfterSearch_Narrowed(collection, user_location, search_radius, min_rating, is_emergency, pet_type) ==
    LET found == get_nearby_hospitals(collection, user_location, search_radius,
                                      min_rating, is_emergency, pet_type)
        Kept(h) == ScanRecord(h, user_location, RadiusOrDefault(search_radius),
                              RatingOrDefault(min_rating), is_emergency,
                              pet_type).keep
    IN  IF found.kind = "ok" THEN SelectSeq(collection, Kept) ELSE collection

\* self.hospitals after get_nearby_hospitals has run: the loop reaches the
\* records up to the one the call ended at, and what it does to a record it
\* keeps is to copy it and annotate the copy.
CollectionAfterSearch(collection, user_location, search_radius, min_rating, is_emergency, pet_type) ==
    LET found == get_nearby_hospitals(collection, user_location, search_radius,
                                      min_rating, is_emergency, pet_type)
    IN  [i \in 1..Len(collection) |->
           IF i > found.scanned
             THEN collection[i]
           ELSE LET step == ScanRecord(collection[i], user_location,
                                       RadiusOrDefault(search_radius),
                                       RatingOrDefault(min_rating),
                                       is_emergency, pet_type)
                IN  IF step.keep THEN AfterCopy(collection[i], step.record)
                                 ELSE collection[i]]

\* ------------------------------------------------------- sorting, filtering
\* list(reversed(s))
Reverse(s) == [i \in 1..Len(s) |-> s[Len(s) + 1 - i]]

\* lambda h: h.get("distance", float('inf'))
DistanceKey(h) == Get(h, "distance", PosInf)

\* lambda h: h.get("rating", 0)
RatingKey(h) == Get(h, "rating", 0)

\* The key a sort compares records by.
KeyOf(h, by) == IF by = "rating" THEN RatingKey(h) ELSE DistanceKey(h)

\* An item placed before the items it equals: the sort is not stable.
Insert_BeforeEquals(placed, x, by) ==
    LET n == Cardinality({ j \in 1..Len(placed) :
                            FloatLT(KeyOf(placed[j], by), KeyOf(x, by)) })
    IN  SubSeq(placed, 1, n) \o <<x>> \o SubSeq(placed, n + 1, Len(placed))

\* Python's sort is stable and compares keys with < alone: each item is
\* placed after every item already placed that it is not less than.
Insert(placed, x, by) ==
    LET n == Cardinality({ j \in 1..Len(placed) :
                            ~FloatLT(KeyOf(x, by), KeyOf(placed[j], by)) })
    IN  SubSeq(placed, 1, n) \o <<x>> \o SubSeq(placed, n + 1, Len(placed))

RECURSIVE SortFrom(_, _, _, _)
SortFrom(s, i, placed, by) ==
    IF i > Len(s) THEN placed
    ELSE SortFrom(s, i + 1, Insert(placed, s[i], by), by)

\* sorted(s, key=..., reverse=...): a new list; with reverse=True the list is
\* reversed, sorted ascending and reversed again, which keeps equal keys in
\* their input order.
Sorted(s, by, reverse) ==
    IF reverse THEN Reverse(SortFrom(Reverse(s), 1, <<>>, by))
    ELSE SortFrom(s, 1, <<>>, by)

\* sorted() builds a new list: the list passed in is, after the call, what
\* it was before.
ArgumentAfterSorted(list) == list

\* sort_by_distance(hospitals)
sort_by_distance(list) == Sorted(list, "distance", FALSE)

\* The ascending sort reversed afterwards: equal ratings come out in the
\* reverse of their input order.
sort_by_rating_AscendingReversed(list) ==
    Reverse(SortFrom(list, 1, <<>>, "rating"))

\* sort_by_rating(hospitals)
sort_by_rating(list) == Sorted(list, "rating", TRUE)

\* The comparison written > : an entry rated exactly min_rating is dropped.
filter_by_rating_Strict(list, min_rating) ==
    SelectSeq(list, LAMBDA h : FloatLT(min_rating, RatingKey(h)))

\* filter_by_rating(hospitals, min_rating):
\* [h for h in hospitals if h.get("rating", 0) >= min_rating]
filter_by_rating(list, min_rating) ==
    SelectSeq(list, LAMBDA h : FloatLE(min_rating, RatingKey(h)))

\* ------------------------------------------------------ get_recommendations
\* The slice written s[:stop - 1]: one item too few.
SliceTo_OneShort(s, stop) ==
    SubSeq(s, 1, IF stop - 1 < Len(s) THEN stop - 1 ELSE Len(s))

\* s[:stop], the slice of the source's last line: the first stop items, or,
\* for a negative stop, all but the last -stop items.
SliceTo(s, stop) ==
    IF stop >= 0 THEN SubSeq(s, 1, IF stop < Len(s) THEN stop ELSE Len(s))
    ELSE SubSeq(s, 1, Len(s) + stop)

MaxResultsOrDefault(max_results) ==
    IF max_results = None THEN DEFAULT_MAX_RESULTS ELSE max_results[1]

\* sort_by defaults to "distance"; any value other than "rating" sorts by
\* distance.
SortByOrDefault(sort_by) == IF sort_by = None THEN "distance" ELSE sort_by[1]

\* get_recommendations(user_location, search_radius, min_rating,
\*                     max_results, sort_by) on the collection.
get_recommendations(collection, user_location, search_radius, min_rating, max_results, sort_by) ==
    LET nearby == get_nearby_hospitals(collection, user_location,
                      search_radius, min_rating, None, None)
        sorted_hospitals ==
            IF SortByOrDefault(sort_by) = "rating"
              THEN sort_by_rating(nearby.value)
              ELSE sort_by_distance(nearby.value)
    IN  IF nearby.kind # "ok" THEN nearby
        ELSE [kind |-> "ok",
              value |-> SliceTo(sorted_hospitals,
                                MaxResultsOrDefault(max_results)),
              scanned |-> nearby.scanned]

MaxResultsArgs == { None, Some(-1), Some(0), Some(1), Some(2), Some(-4) }
SortByArgs == { None, Some("distance"), Some("rating") }
\* The thresholds filter_by_rating is called with (it validates none).
FilterRatings == { 400, 450, 500 }

\* format_hospital_info(hospital): the parts of the text it builds. The
\* records of the model carry hospital_id for the name, address and phone;
\* the distance shown is the record's or "N/A" (None), the badge is shown
\* when is_emergency is present and true, the specialties default to none.
format_hospital_info(hospital) ==
    [name          |-> hospital["hospital_id"],
     rating        |-> hospital["rating"],
     distance      |-> IF "distance" \in DOMAIN hospital
                         THEN Some(hospital["distance"]) ELSE None,
     emergency     |-> Get(hospital, "is_emergency", FALSE),
     specialties   |-> Get(hospital, "specialties", <<>>)]

\* ------------------------------------------------------------ data sources
\* What may be found at hospital_db_path: nothing, a directory, a file the
\* process may not read, a file that is not JSON, a JSON array, or a JSON
\* object (data holds its members).
Object(data) == [kind |-> "object", data |-> data]

NoMembers == [k \in {} |-> <<>>]

FailingSources ==
    { [kind |-> "missing", data |-> NoMembers],
      [kind |-> "directory", data |-> NoMembers],
      [kind |-> "unreadable", data |-> NoMembers],
      [kind |-> "malformed", data |-> NoMembers],
      [kind |-> "array", data |-> NoMembers] }

Sources ==
    FailingSources
    \cup { Object(NoMembers) }
    \cup { Object([hospitals |-> d]) : d \in Datasets }

\* The file exists and the default returned for it: the existence check is
\* lost.
_load_hospitals_DefaultWhenMissing(src) ==
    IF src.kind = "directory"
      THEN [exc |-> "IsADirectoryError", hospitals |-> <<>>]
    ELSE IF src.kind = "unreadable"
      THEN [exc |-> "PermissionError", hospitals |-> <<>>]
    ELSE IF src.kind = "malformed"
      THEN [exc |-> "JSONDecodeError", hospitals |-> <<>>]
    ELSE IF src.kind = "array"
      THEN [exc |-> "AttributeError", hospitals |-> <<>>]
    ELSE [exc |-> "none", hospitals |-> Get(src.data, "hospitals", <<>>)]

\* _load_hospitals(): FileNotFoundError when the path does not exist;
\* open() raises for a directory and for a file that may not be read,
\* json.load for a file that is not JSON, data.get for JSON that is not an
\* object; otherwise data.get("hospitals", []).
_load_hospitals(src) ==
    IF src.kind = "missing"
      THEN [exc |-> "FileNotFoundError", hospitals |-> <<>>]
    ELSE IF src.kind = "directory"
      THEN [exc |-> "IsADirectoryError", hospitals |-> <<>>]
    ELSE IF src.kind = "unreadable"
      THEN [exc |-> "PermissionError", hospitals |-> <<>>]
    ELSE IF src.kind = "malformed"
      THEN [exc |-> "JSONDecodeError", hospitals |-> <<>>]
    ELSE IF src.kind = "array"
      THEN [exc |-> "AttributeError", hospitals |-> <<>>]
    ELSE [exc |-> "none", hospitals |-> Get(src.data, "hospitals", <<>>)]

\* The locations calculate_distance is called with: the Points and two
\* locations with a component that is not finite.
DistanceArgs ==
    { Points[i] : i \in DOMAIN Points }
    \cup { <<NaN, -71058900>>, <<PosInf, -71058900>> }

\* ------------------------------------------------------------------- state
VARIABLES
    source,     \* what is at hospital_db_path
    hospitals,  \* self.hospitals, the collection loaded at construction
    pc,         \* "new": not constructed; "failed": the constructor raised;
                \* "idle": no call made; "returned": the last call has ended
    earlier,    \* the outcomes (ok or the exception) of the calls made on
                \* the instance before the last one
    threads,    \* the searches of concurrent callers
    call,       \* the last call: the operation and its arguments
    held,       \* the list the caller passed to a sort or filter, as it is
                \* after the call
    outcome     \* what the last call returned or raised

\* The symptom analyzer (ai_symptom_analyzer.py) and what it reads.
VARIABLES
    use_mock_ai,   \* Config.USE_MOCK_AI
    enable_cache,  \* Config.ENABLE_CACHE
    now,           \* time.time(), in seconds
    cache,         \* SymptomCache.cache: key -> stored value
    timestamps,    \* SymptomCache.timestamps: key -> time of the last set
    api_calls,     \* AISymptomAnalyzer.api_calls
    total_tokens,  \* AISymptomAnalyzer.total_tokens
    asked,         \* the call being made on the analyzer or its cache
    answer,        \* what that call returned or raised, and the steps it ran
    produced       \* key or request -> the value last produced for it
                   \* while caching was enabled, and the time of that

analyzer == <<use_mock_ai, enable_cache, now, cache, timestamps, api_calls,
              total_tokens, asked, answer, produced>>

locator == <<source, hospitals, pc, earlier, threads, call, held, outcome>>

vars == <<locator, analyzer>>

\* What a call of a single caller leaves alone.
elsewhere == <<source, earlier, threads, analyzer>>

\* A dict without keys.
EmptyDict == <<>>

NotAsked == [op |-> "none"]
NoAnswer == [kind |-> "none", value |-> <<>>, message |-> "", ran |-> <<>>]

\* No analyzer has been constructed.
NoAnalyzer ==
    /\ use_mock_ai = TRUE
    /\ enable_cache = TRUE
    /\ now = 0
    /\ cache = EmptyDict
    /\ timestamps = EmptyDict
    /\ api_calls = 0
    /\ total_tokens = 0
    /\ asked = NotAsked
    /\ answer = NoAnswer
    /\ produced = EmptyDict

NoCall == [op |-> "none"]
NoOutcome == [kind |-> "none", value |-> <<>>, scanned |-> 0]

\* VetLocator(path): self.hospitals = self._load_hospitals()
NoThreads == <<>>

Init ==
    /\ source \in { src \in Sources : _load_hospitals(src).exc = "none" }
    /\ hospitals = _load_hospitals(source).hospitals
    /\ pc = "idle"
    /\ earlier = {}
    /\ threads = NoThreads
    /\ call = NoCall
    /\ held = <<>>
    /\ outcome = NoOutcome
    /\ NoAnalyzer

\* A caller invokes get_nearby_hospitals.
Search ==
    /\ pc = "idle"
    /\ \E loc \in Locations, radius \in Radii, rating \in MinRatings,
          emergency \in EmergencyFlags, pet \in PetTypes :
          /\ call' = [op |-> "search", user_location |-> loc,
                      search_radius |-> radius, min_rating |-> rating,
                      is_emergency |-> emergency, pet_type |-> pet]
          /\ outcome' = get_nearby_hospitals(hospitals, loc, radius, rating,
                                             emergency, pet)
          /\ hospitals' = CollectionAfterSearch(hospitals, loc, radius, rating,
                                                emergency, pet)
    /\ pc' = "returned"
    /\ UNCHANGED <<held, elsewhere>>

\* A caller invokes get_recommendations.
Recommend ==
    /\ pc = "idle"
    /\ \E loc \in Locations, radius \in Radii, rating \in MinRatings,
          k \in MaxResultsArgs, by \in SortByArgs :
          /\ call' = [op |-> "recommend", user_location |-> loc,
                      search_radius |-> radius, min_rating |-> rating,
                      max_results |-> k, sort_by |-> by]
          /\ outcome' = get_recommendations(hospitals, loc, radius, rating,
                                            k, by)
          /\ hospitals' = CollectionAfterSearch(hospitals, loc, radius, rating,
                                                None, None)
    /\ pc' = "returned"
    /\ UNCHANGED <<held, elsewhere>>

\* A caller invokes calculate_distance.
CalculateDistance ==
    /\ pc = "idle"
    /\ \E location1, location2 \in DistanceArgs :
          LET dist == calculate_distance(location1, location2)
          IN  /\ call' = [op |-> "calculate_distance",
                          location1 |-> location1, location2 |-> location2]
              /\ outcome' = [kind |-> IF dist.exc = "none" THEN "ok"
                                                           ELSE dist.exc,
                             value |-> <<dist.d>>, scanned |-> 0]
    /\ pc' = "returned"
    /\ UNCHANGED <<hospitals, held, elsewhere>>

\* A caller passes the list a search returned to sort_by_distance.
SortByDistance ==
    /\ pc = "returned" /\ call.op = "search" /\ outcome.kind = "ok"
    /\ call' = [op |-> "sort_by_distance", list |-> outcome.value]
    /\ held' = ArgumentAfterSorted(outcome.value)
    /\ outcome' = [kind |-> "ok", value |-> sort_by_distance(outcome.value),
                   scanned |-> 0]
    /\ UNCHANGED <<hospitals, pc, elsewhere>>

\* A caller passes the list a search returned to sort_by_rating.
SortByRating ==
    /\ pc = "returned" /\ call.op = "search" /\ outcome.kind = "ok"
    /\ call' = [op |-> "sort_by_rating", list |-> outcome.value]
    /\ held' = ArgumentAfterSorted(outcome.value)
    /\ outcome' = [kind |-> "ok", value |-> sort_by_rating(outcome.value),
                   scanned |-> 0]
    /\ UNCHANGED <<hospitals, pc, elsewhere>>

\* A caller passes the list a search returned to filter_by_rating.
FilterByRating ==
    /\ pc = "returned" /\ call.op = "search" /\ outcome.kind = "ok"
    /\ \E rating \in FilterRatings :
          /\ call' = [op |-> "filter_by_rating", list |-> outcome.value,
                      min_rating |-> rating]
          /\ outcome' = [kind |-> "ok",
                         value |-> filter_by_rating(outcome.value, rating),
                         scanned |-> 0]
    /\ held' = outcome.value
    /\ UNCHANGED <<hospitals, pc, elsewhere>>

\* A caller passes a record a search returned, or a stored record, to
\* format_hospital_info.
FormatHospitalInfo ==
    /\ pc = "returned" /\ call.op = "search" /\ outcome.kind = "ok"
    /\ \E hospital \in { outcome.value[i] : i \in DOMAIN outcome.value }
                      \cup { hospitals[i] : i \in DOMAIN hospitals } :
          /\ call' = [op |-> "format_hospital_info", hospital |-> hospital]
          /\ outcome' = [kind |-> "ok",
                         value |-> <<format_hospital_info(hospital)>>,
                         scanned |-> 0]
    /\ UNCHANGED <<hospitals, pc, held, elsewhere>>

\* The caller takes the result; the engine is ready for the next call.
Return ==
    /\ pc = "returned"
    /\ pc' = "idle"
    /\ call' = NoCall
    /\ held' = <<>>
    /\ outcome' = NoOutcome
    /\ UNCHANGED <<hospitals, elsewhere>>

Next ==
    \/ Search
    \/ Recommend
    \/ CalculateDistance
    \/ SortByDistance
    \/ SortByRating
    \/ FilterByRating
    \/ FormatHospitalInfo
    \/ Return

Spec == Init /\ [][Next]_vars

\* -------------------------------------------------------- concurrent calls
Callers == 1..MaxCallers

\* The searches the concurrent callers make, as <<user_location,
\* search_radius, min_rating, is_emergency, pet_type>>: within 1 km of
\* Boston, emergency hospitals for cats around Cambridge, a location the
\* distance computation raises on, and a location the validation refuses.
ConcurrentCriteria ==
    { << Tuple(<<42360100, -71058900>>), Some(100), None, None, None >>,
      << Tuple(<<42373600, -71109700>>), Some(10000), Some(100), Some(TRUE),
         Some("cat") >>,
      << Tuple(<<PosInf, -71058900>>), None, None, None, None >>,
      << [type |-> "str", items |-> <<NotANumber, NotANumber>>], None, None,
         None, None >> }

\* The collections the concurrent callers search.
ConcurrentSources ==
    { Object([hospitals |-> SubSeq(FullDataset, 2, 3)]),
      Object([hospitals |-> FullDataset]) }

\* A caller that is not in a call.
IdleThread ==
    [phase |-> "idle", criteria |-> <<>>, i |-> 0, nearby_hospitals |-> <<>>,
     outcome |-> NoOutcome]

\* One iteration of a scan loop writes the record it kept back into the
\* collection.
CollectionAfterStep_InPlace(collection, i, step) ==
    [collection EXCEPT ![i] = IF step.keep THEN step.record ELSE @]

\* self.hospitals after one iteration of a scan loop on its record i.
CollectionAfterStep(collection, i, step) ==
    [collection EXCEPT ![i] = IF step.keep THEN AfterCopy(@, step.record)
                                           ELSE @]

InitConcurrent ==
    /\ source \in ConcurrentSources
    /\ hospitals = _load_hospitals(source).hospitals
    /\ pc = "idle"
    /\ earlier = {}
    /\ threads = [t \in Callers |-> IdleThread]
    /\ call = NoCall
    /\ held = <<>>
    /\ outcome = NoOutcome
    /\ NoAnalyzer

\* Caller t enters get_nearby_hospitals: the validations, the defaults and
\* nearby_hospitals = [].
BeginSearch(t) ==
    /\ threads[t].phase = "idle"
    /\ \E c \in ConcurrentCriteria :
          LET check == Validate(c[1], c[2], c[3])
          IN  threads' = [threads EXCEPT ![t] =
                IF check # "ok"
                  THEN [phase |-> "done", criteria |-> c, i |-> 0,
                        nearby_hospitals |-> <<>>,
                        outcome |-> [kind |-> check, value |-> <<>>,
                                     scanned |-> 0]]
                ELSE [phase |-> "scanning", criteria |-> c, i |-> 1,
                      nearby_hospitals |-> <<>>, outcome |-> NoOutcome]]
    /\ UNCHANGED <<source, hospitals, pc, earlier, call, held, outcome,
                 analyzer>>

\* Caller t runs one iteration of its loop, on the record of the shared
\* collection it has reached.
ScanStep(t) ==
    /\ threads[t].phase = "scanning"
    /\ threads[t].i <= Len(hospitals)
    /\ LET c == threads[t].criteria
           i == threads[t].i
           step == ScanRecord(hospitals[i], c[1], RadiusOrDefault(c[2]),
                              RatingOrDefault(c[3]), c[4], c[5])
       IN  /\ threads' = [threads EXCEPT ![t] =
                 IF step.exc # "none"
                   THEN [@ EXCEPT !.phase = "done",
                                  !.outcome = [kind |-> step.exc,
                                               value |-> <<>>,
                                               scanned |-> i]]
                 ELSE [@ EXCEPT !.i = i + 1,
                                !.nearby_hospitals =
                                    IF step.keep THEN Append(@, step.record)
                                                 ELSE @]]
           /\ hospitals' = CollectionAfterStep(hospitals, i, step)
    /\ UNCHANGED <<source, pc, earlier, call, held, outcome, analyzer>>

\* Caller t leaves its loop: return nearby_hospitals.
EndSearch(t) ==
    /\ threads[t].phase = "scanning"
    /\ threads[t].i > Len(hospitals)
    /\ threads' = [threads EXCEPT ![t] =
          [@ EXCEPT !.phase = "done",
                    !.outcome = [kind |-> "ok",
                                 value |-> threads[t].nearby_hospitals,
                                 scanned |-> threads[t].i - 1]]]
    /\ UNCHANGED <<source, hospitals, pc, earlier, call, held, outcome,
                 analyzer>>

\* Caller t takes its result and may call again.
TakeResult(t) ==
    /\ threads[t].phase = "done"
    /\ threads' = [threads EXCEPT ![t] = IdleThread]
    /\ UNCHANGED <<source, hospitals, pc, earlier, call, held, outcome,
                 analyzer>>

NextConcurrent ==
    \E t \in Callers :
       \/ BeginSearch(t)
       \/ ScanStep(t)
       \/ EndSearch(t)
       \/ TakeResult(t)

SpecConcurrent == InitConcurrent /\ [][NextConcurrent]_vars

\* ------------------------------------------------------ records as objects
\* A dict is a value and an identity. Here the records carry their identity
\* in a field "ref": a stored record is the object StoredRef(i), and the
\* objects a call creates are FreshRef(tag, i), tag naming the call.
StoredRef(i) == [heap |-> "stored", at |-> i]
FreshRef(tag, i) == [heap |-> tag, at |-> i]

\* The stored records with their identities.
Identified(collection) ==
    [i \in DOMAIN collection |->
        [k \in DOMAIN collection[i] \cup {"ref"} |->
            IF k = "ref" THEN StoredRef(i) ELSE collection[i][k]]]

\* No copy is taken: hospital_with_distance is the stored dict itself.
CopyRef_Alias(stored, fresh) == stored

\* hospital.copy() returns a new dict.
CopyRef(stored, fresh) == fresh

\* The list a call returns, its records being the objects the scan loop
\* made of the stored records it kept.
Returned(list, tag) ==
    [k \in DOMAIN list |->
        [list[k] EXCEPT !["ref"] = CopyRef(@, FreshRef(tag, @.at))]]

\* A record without its identity.
Value(record) == [k \in DOMAIN record \ {"ref"} |-> record[k]]
Values(list) == [k \in DOMAIN list |-> Value(list[k])]

\* A tag for the objects of a new call: one that no list the caller still
\* holds uses.
FreshTag ==
    IF \E k \in DOMAIN held : held[k]["ref"].heap = "first"
      THEN "second" ELSE "first"

\* The collections and the calls of this part.
AliasingSources ==
    { Object([hospitals |-> SubSeq(FullDataset, 2, 3)]),
      Object([hospitals |-> SubSeq(FullDataset, 3, 5)]) }
AliasingCriteria ==
    { << Tuple(Points[1]), Some(100), None >>,
      << Tuple(Points[2]), Some(10000), Some(100) >>,
      << Tuple(Points[1]), Some(10100), None >> }

\* What a caller writes into a record it was given: a top-level field
\* changed or added.
Edits == { <<"rating", 0>>, <<"visited", 1>> }

\* obj[field] = value on the object ref, seen in a record that is, or is
\* not, that object.
Written(record, ref, edit) ==
    IF record["ref"] # ref THEN record
    ELSE [k \in DOMAIN record \cup {edit[1]} |->
             IF k = edit[1] THEN edit[2] ELSE record[k]]

InitAliasing ==
    /\ source \in AliasingSources
    /\ hospitals = _load_hospitals(source).hospitals
    /\ pc = "idle"
    /\ earlier = {}
    /\ threads = NoThreads
    /\ call = NoCall
    /\ held = <<>>
    /\ outcome = NoOutcome
    /\ NoAnalyzer

\* get_nearby_hospitals, the records of its result being objects.
SearchRecords ==
    /\ pc = "idle"
    /\ \E c \in AliasingCriteria :
          LET found == get_nearby_hospitals(Identified(hospitals), c[1], c[2],
                                            c[3], None, None)
          IN  /\ call' = [op |-> "search", user_location |-> c[1],
                          search_radius |-> c[2], min_rating |-> c[3],
                          is_emergency |-> None, pet_type |-> None]
              /\ outcome' = [found EXCEPT !.value = Returned(@, FreshTag)]
              /\ hospitals' = CollectionAfterSearch(hospitals, c[1], c[2],
                                                    c[3], None, None)
    /\ pc' = "returned"
    /\ UNCHANGED <<held, elsewhere>>

\* get_recommendations by rating, the records of its result being objects:
\* sorted() and the slice build new lists of the same dicts.
RecommendRecords ==
    /\ pc = "idle"
    /\ \E c \in AliasingCriteria, k \in { None, Some(1) } :
          LET found == get_recommendations(Identified(hospitals), c[1], c[2],
                                           c[3], k, Some("rating"))
          IN  /\ call' = [op |-> "recommend", user_location |-> c[1],
                          search_radius |-> c[2], min_rating |-> c[3],
                          max_results |-> k, sort_by |-> Some("rating")]
              /\ outcome' = [found EXCEPT !.value = Returned(@, FreshTag)]
              /\ hospitals' = CollectionAfterSearch(hospitals, c[1], c[2],
                                                    c[3], None, None)
    /\ pc' = "returned"
    /\ UNCHANGED <<held, elsewhere>>

\* The caller keeps the list it was returned and is ready to call again.
KeepResult ==
    /\ pc = "returned"
    /\ outcome.kind = "ok"
    /\ held' = outcome.value
    /\ pc' = "idle"
    /\ call' = NoCall
    /\ outcome' = NoOutcome
    /\ UNCHANGED <<hospitals, elsewhere>>

\* The caller changes or adds a top-level field of a record of the list it
\* was just returned or of the list it kept. The write is to an object:
\* every list that holds the object shows it, the collection included.
EditRecord ==
    /\ outcome.kind \in { "ok", "none" }
    /\ \E record \in { outcome.value[k] : k \in DOMAIN outcome.value }
                    \cup { held[k] : k \in DOMAIN held },
          edit \in Edits :
          LET ref == record["ref"]
              stored == Identified(hospitals)
          IN  /\ outcome' = [outcome EXCEPT !.value =
                     [k \in DOMAIN @ |-> Written(@[k], ref, edit)]]
              /\ held' = [k \in DOMAIN held |-> Written(held[k], ref, edit)]
              /\ hospitals' = [i \in DOMAIN hospitals |->
                     Value(Written(stored[i], ref, edit))]
              /\ call' = [op |-> "edit", ref |-> ref, edit |-> edit]
    /\ UNCHANGED <<pc, elsewhere>>

NextAliasing ==
    \/ SearchRecords
    \/ RecommendRecords
    \/ KeepResult
    \/ EditRecord
    \/ Return

SpecAliasing == InitAliasing /\ [][NextAliasing]_vars

\* ------------------------------------------------- construction and history
\* The sources an engine is constructed from here: the ones that fail, an
\* object without "hospitals", and objects holding none, two and six
\* hospitals.
LifecycleSources ==
    FailingSources
    \cup { Object(NoMembers), Object([hospitals |-> <<>>]),
           Object([hospitals |-> SubSeq(FullDataset, 2, 3)]),
           Object([hospitals |-> FullDataset]) }

\* Before VetLocator(path) is called there is no instance.
InitLifecycle ==
    /\ source \in LifecycleSources
    /\ hospitals = <<>>
    /\ pc = "new"
    /\ earlier = {}
    /\ threads = NoThreads
    /\ call = NoCall
    /\ held = <<>>
    /\ outcome = NoOutcome
    /\ NoAnalyzer

\* VetLocator(path): self.hospitals = self._load_hospitals(). When the load
\* raises, the constructor raises and the caller has no instance.
Construct ==
    /\ pc = "new"
    /\ call' = [op |-> "construct"]
    /\ LET loaded == _load_hospitals(source)
       IN  IF loaded.exc = "none"
             THEN /\ hospitals' = loaded.hospitals
                  /\ pc' = "idle"
                  /\ outcome' = NoOutcome
           ELSE /\ hospitals' = hospitals
                /\ pc' = "failed"
                /\ outcome' = [kind |-> loaded.exc, value |-> <<>>,
                               scanned |-> 0]
    /\ UNCHANGED <<held, elsewhere>>

\* The caller takes the result of a search or recommendation, and its
\* outcome joins the history of the instance.
ReturnRecorded ==
    /\ pc = "returned"
    /\ pc' = "idle"
    /\ earlier' = earlier \cup {outcome.kind}
    /\ call' = NoCall
    /\ held' = <<>>
    /\ outcome' = NoOutcome
    /\ UNCHANGED <<hospitals, source, threads, analyzer>>

NextLifecycle ==
    \/ Construct
    \/ Search
    \/ Recommend
    \/ ReturnRecorded

SpecLifecycle == InitLifecycle /\ [][NextLifecycle]_vars

\* --------------------------------------------------------- symptom analyzer
\* Config.CACHE_DURATION, in seconds: the default of config.py.
CACHE_DURATION == 3600

\* time.time() is not advanced beyond this.
MaxClock == 7300

\* The API answers at most this many requests.
MaxApiCalls == 2

\* Between two calls time.time() advances by one second less than the cache
\* duration, by the duration, or by one second more.
ClockSteps == { CACHE_DURATION - 1, CACHE_DURATION, CACHE_DURATION + 1 }

\* d[key] = value on a dict
Put(d, key, value) ==
    [k \in DOMAIN d \cup {key} |-> IF k = key THEN value ELSE d[k]]

\* Symptom texts that are empty or hold blanks only.
BlankTexts == { "", "   " }

\* The symptom texts of the calls: the blank ones, two that differ in case
\* and surrounding blanks only, and another one.
Texts ==
    BlankTexts
    \cup { "My dog is vomiting", "  my DOG is VOMITING ", "Cat is limping" }

\* str.strip() on the texts
Strip(text) ==
    CASE text = "   " -> ""
      [] text = "  my DOG is VOMITING " -> "my DOG is VOMITING"
      [] text = "  my dog is vomiting " -> "my dog is vomiting"
      [] OTHER -> text

\* str.lower() on the texts
LowerText(text) ==
    CASE text = "My dog is vomiting" -> "my dog is vomiting"
      [] text = "  my DOG is VOMITING " -> "  my dog is vomiting "
      [] text = "my DOG is VOMITING" -> "my dog is vomiting"
      [] text = "Cat is limping" -> "cat is limping"
      [] OTHER -> text

\* The keywords of _mock_analyze that occur in a lower-cased text
\* (word in text_lower).
WordsIn(text_lower) ==
    CASE text_lower \in { "my dog is vomiting", "  my dog is vomiting " }
           -> { "vomit" }
      [] text_lower = "cat is limping" -> { "limp" }
      [] OTHER -> {}

\* The if / elif chain of _mock_analyze: the keywords of each branch and the
\* condition it reports, in the order of the chain.
MockBranches ==
    << [words |-> { "vomit", "throw", "sick", "nausea", "stomach",
                    "diarrhea" },
        condition |-> "Digestive Upset", severity |-> "moderate"],
       [words |-> { "limp", "leg", "pain", "walk", "lame" },
        condition |-> "Leg Injury", severity |-> "moderate"],
       [words |-> { "cough", "sneez", "breath", "wheez" },
        condition |-> "Respiratory Issue", severity |-> "mild"],
       [words |-> { "scratch", "itch", "skin", "rash", "fur", "hair loss" },
        condition |-> "Skin Irritation", severity |-> "mild"],
       [words |-> { "eye", "squint", "discharge", "red eye" },
        condition |-> "Eye Problem", severity |-> "moderate"],
       [words |-> { "ear", "head shak", "tilt" },
        condition |-> "Ear Problem", severity |-> "mild"],
       [words |-> { "tired", "sleep", "energy", "weak", "lethar",
                    "depress" },
        condition |-> "Lethargy", severity |-> "moderate"],
       [words |-> { "eat", "food", "appetite", "hungry" },
        condition |-> "Loss of Appetite", severity |-> "moderate"] >>

\* The else branch of the chain.
MockDefault ==
    [words |-> {}, condition |-> "General Health Concern",
     severity |-> "moderate"]

\* The first branch of the chain one of whose keywords occurs in the text.
MockBranch(text_lower) ==
    LET hits == { i \in DOMAIN MockBranches :
                    MockBranches[i].words \cap WordsIn(text_lower) # {} }
    IN  IF hits = {} THEN MockDefault
        ELSE MockBranches[CHOOSE i \in hits : \A j \in hits : i <= j]

\* _mock_analyze(symptom_text, pet_type). The confidence is in 1/100; the
\* recommended action is the sentence and the pet type it names.
_mock_analyze(symptom_text, pet_type) ==
    LET branch == MockBranch(LowerText(symptom_text))
    IN  [condition_name |-> branch.condition,
         confidence |-> 75,
         severity |-> branch.severity,
         recommended_action |-> <<"Monitor your", pet_type>>,
         urgent |-> FALSE,
         mode |-> "mock"]

\* What json.loads makes of the content of an API response: an object with
\* some of the keys the prompt asks for, an array, or a JSONDecodeError on
\* plain text.
JsonObject == [kind |-> "object", data |-> [condition |-> "Gastritis"]]
JsonArray == [kind |-> "array", data |-> EmptyDict]
PlainText == [kind |-> "text", data |-> EmptyDict]

\* _parse_ai_response(content, pet_type): the dict it returns, or the
\* exception that leaves it (data.get on a value that is not an object).
_parse_ai_response(content, pet_type) ==
    CASE content.kind = "object" ->
           [exc |-> "none",
            result |-> [condition_name |->
                            Get(content.data, "condition", "Unknown"),
                        confidence |-> 80,
                        severity |->
                            Get(content.data, "severity", "moderate"),
                        recommended_action |->
                            Get(content.data, "action",
                                <<"Consult veterinarian about your",
                                  pet_type>>),
                        urgent |-> Get(content.data, "urgent", FALSE),
                        mode |-> "none"]]
      [] content.kind = "text" ->
           [exc |-> "none",
            result |-> [condition_name |-> "AI Analysis",
                        confidence |-> 80,
                        severity |-> "moderate",
                        recommended_action |->
                            <<"Consult veterinarian about your", pet_type>>,
                        urgent |-> FALSE,
                        mode |-> "none"]]
      [] OTHER -> [exc |-> "AttributeError", result |-> EmptyDict]

\* What self.client.chat.completions.create does: it raises, or returns a
\* response with a content and a token count.
NoReply == [ok |-> FALSE, content |-> PlainText, tokens |-> 0]
ApiReplies ==
    { NoReply,
      [ok |-> TRUE, content |-> JsonObject, tokens |-> 40],
      [ok |-> TRUE, content |-> PlainText, tokens |-> 90],
      [ok |-> TRUE, content |-> JsonArray, tokens |-> 40] }

\* _real_analyze with the counters advanced before the request is made
_real_analyze_CountsFailures(symptom_text, pet_type, reply, calls, tokens) ==
    IF ~reply.ok
      THEN [result |-> _mock_analyze(symptom_text, pet_type),
            api_calls |-> calls + 1, total_tokens |-> tokens,
            ran |-> <<"request failed", "mock">>]
    ELSE LET parsed == _parse_ai_response(reply.content, pet_type)
         IN  [result |-> IF parsed.exc = "none"
                           THEN [parsed.result EXCEPT !.mode = "real_api"]
                         ELSE _mock_analyze(symptom_text, pet_type),
              api_calls |-> calls + 1,
              total_tokens |-> tokens + reply.tokens,
              ran |-> IF parsed.exc = "none" THEN <<"request">>
                      ELSE <<"request", "mock">>]

\* _real_analyze with the fallback result marked as a result of the API
_real_analyze_FallbackMarkedReal(symptom_text, pet_type, reply, calls, tokens) ==
    IF ~reply.ok
      THEN [result |-> [_mock_analyze(symptom_text, pet_type)
                            EXCEPT !.mode = "real_api"],
            api_calls |-> calls, total_tokens |-> tokens,
            ran |-> <<"request failed", "mock">>]
    ELSE LET parsed == _parse_ai_response(reply.content, pet_type)
         IN  [result |-> IF parsed.exc = "none"
                           THEN [parsed.result EXCEPT !.mode = "real_api"]
                         ELSE _mock_analyze(symptom_text, pet_type),
              api_calls |-> calls + 1,
              total_tokens |-> tokens + reply.tokens,
              ran |-> IF parsed.exc = "none" THEN <<"request">>
                      ELSE <<"request", "mock">>]

\* _real_analyze(symptom_text, pet_type), the API answering with reply: the
\* result, the counters after it and the analyses that ran. The counters are
\* advanced as soon as the request has returned; any exception in the try
\* block ends in the mock analysis.
_real_analyze(symptom_text, pet_type, reply, calls, tokens) ==
    IF ~reply.ok
      THEN [result |-> _mock_analyze(symptom_text, pet_type),
            api_calls |-> calls, total_tokens |-> tokens,
            ran |-> <<"request failed", "mock">>]
    ELSE LET parsed == _parse_ai_response(reply.content, pet_type)
         IN  IF parsed.exc = "none"
               THEN [result |-> [parsed.result EXCEPT !.mode = "real_api"],
                     api_calls |-> calls + 1,
                     total_tokens |-> tokens + reply.tokens,
                     ran |-> <<"request">>]
             ELSE [result |-> _mock_analyze(symptom_text, pet_type),
                   api_calls |-> calls + 1,
                   total_tokens |-> tokens + reply.tokens,
                   ran |-> <<"request", "mock">>]

\* SymptomCache.get with an entry still served at the age CACHE_DURATION
SymptomCache_get_AtDuration(entries, times, key, enabled, time) ==
    IF ~enabled THEN None
    ELSE IF key \in DOMAIN entries
            /\ time - Get(times, key, 0) <= CACHE_DURATION
           THEN Some(entries[key])
         ELSE None

\* SymptomCache.get(key) at time.time() = time
SymptomCache_get(entries, times, key, enabled, time) ==
    IF ~enabled THEN None
    ELSE IF key \in DOMAIN entries
            /\ time - Get(times, key, 0) < CACHE_DURATION
           THEN Some(entries[key])
         ELSE None

\* SymptomCache.set that leaves the time of a key it already holds as it is
SymptomCache_set_KeepsFirstTime(entries, times, key, value, enabled, time) ==
    IF enabled
      THEN [cache |-> Put(entries, key, value),
            timestamps |-> IF key \in DOMAIN times THEN times
                           ELSE Put(times, key, time)]
    ELSE [cache |-> entries, timestamps |-> times]

\* SymptomCache.set(key, value) at time.time() = time: the two dicts after it
SymptomCache_set(entries, times, key, value, enabled, time) ==
    IF enabled
      THEN [cache |-> Put(entries, key, value),
            timestamps |-> Put(times, key, time)]
    ELSE [cache |-> entries, timestamps |-> times]

\* cache_key = f"{pet_type}:{symptom_text.lower().strip()}": the pet type
\* and the normalised text
CacheKey(symptom_text, pet_type) ==
    <<pet_type, Strip(LowerText(symptom_text))>>

\* The validation without "or not symptom_text.strip()"
IsBlank_EmptyOnly(symptom_text) == symptom_text = ""

\* not symptom_text or not symptom_text.strip()
IsBlank(symptom_text) == symptom_text = "" \/ Strip(symptom_text) = ""

\* The vet locator is not in use.
NoLocator ==
    /\ source = Object(NoMembers)
    /\ hospitals = <<>>
    /\ pc = "new"
    /\ earlier = {}
    /\ threads = NoThreads
    /\ call = NoCall
    /\ held = <<>>
    /\ outcome = NoOutcome

\* time.time() advances between calls.
Tick ==
    /\ asked = NotAsked
    /\ \E step \in ClockSteps :
          /\ now + step <= MaxClock
          /\ now' = now + step
    /\ UNCHANGED <<locator, use_mock_ai, enable_cache, cache, timestamps,
                   api_calls, total_tokens, asked, answer, produced>>

\* Config.ENABLE_CACHE is switched between calls.
SetEnableCache ==
    /\ asked = NotAsked
    /\ enable_cache' = ~enable_cache
    /\ UNCHANGED <<locator, use_mock_ai, now, cache, timestamps, api_calls,
                   total_tokens, asked, answer, produced>>

\* The caller takes what the call returned.
TakeAnswer ==
    /\ asked # NotAsked
    /\ asked' = NotAsked
    /\ answer' = NoAnswer
    /\ UNCHANGED <<locator, use_mock_ai, enable_cache, now, cache,
                   timestamps, api_calls, total_tokens, produced>>

\* ------------------------------------------------------- the cache by itself
\* The keys and values a caller of SymptomCache uses.
CacheKeys == { CacheKey("My dog is vomiting", "dog"),
               CacheKey("Cat is limping", "cat") }
CacheValues == { _mock_analyze("My dog is vomiting", "dog"),
                 _mock_analyze("Cat is limping", "cat") }

\* SymptomCache(): self.cache = {}, self.timestamps = {}
InitCache ==
    /\ NoLocator
    /\ use_mock_ai = TRUE
    /\ enable_cache \in BOOLEAN
    /\ now = 0
    /\ cache = EmptyDict
    /\ timestamps = EmptyDict
    /\ api_calls = 0
    /\ total_tokens = 0
    /\ asked = NotAsked
    /\ answer = NoAnswer
    /\ produced = EmptyDict

\* A caller invokes SymptomCache.set.
CacheSet ==
    /\ asked = NotAsked
    /\ \E key \in CacheKeys, value \in CacheValues :
          LET after == SymptomCache_set(cache, timestamps, key, value,
                                        enable_cache, now)
          IN  /\ asked' = [op |-> "set", key |-> key, value |-> value]
              /\ cache' = after.cache
              /\ timestamps' = after.timestamps
              /\ produced' = IF enable_cache
                               THEN Put(produced, key,
                                        [value |-> value, at |-> now])
                             ELSE produced
    /\ answer' = [kind |-> "ok", value |-> None, message |-> "",
                  ran |-> <<>>]
    /\ UNCHANGED <<locator, use_mock_ai, enable_cache, now, api_calls,
                   total_tokens>>

\* A caller invokes SymptomCache.get.
CacheGet ==
    /\ asked = NotAsked
    /\ \E key \in CacheKeys :
          /\ asked' = [op |-> "get", key |-> key]
          /\ answer' = [kind |-> "ok",
                        value |-> SymptomCache_get(cache, timestamps, key,
                                                   enable_cache, now),
                        message |-> "", ran |-> <<>>]
    /\ UNCHANGED <<locator, use_mock_ai, enable_cache, now, cache,
                   timestamps, api_calls, total_tokens, produced>>

NextCache ==
    \/ CacheSet
    \/ CacheGet
    \/ Tick
    \/ SetEnableCache
    \/ TakeAnswer

SpecCache == InitCache /\ [][NextCache]_vars

\* ------------------------------------------------------------ the analyzer
\* The symptom text and pet type of the calls of analyze_symptoms: the blank
\* texts, two texts that make one key, and one of them for another pet type.
AnalyzerArgs ==
    { <<text, "dog">> : text \in Texts \ { "Cat is limping" } }
    \cup { <<"My dog is vomiting", "cat">> }

\* analyze_symptoms(symptom_text, pet_type) on an analyzer whose cache holds
\* entries and times and whose counters are calls and tokens, the API
\* answering a request with reply: what it returns or raises, the steps it
\* ran, and the cache and the counters after it.
analyze_symptoms(symptom_text, pet_type, reply, entries, times, calls, tokens, mock, enabled, time) ==
    IF IsBlank(symptom_text)
      THEN [kind |-> "ValueError", value |-> None,
            message |-> "Symptom text cannot be empty", ran |-> <<>>,
            cache |-> entries, timestamps |-> times,
            api_calls |-> calls, total_tokens |-> tokens]
    ELSE LET cache_key == CacheKey(symptom_text, pet_type)
             cached_result == SymptomCache_get(entries, times, cache_key,
                                               enabled, time)
             analysis ==
                 IF mock
                   THEN [result |-> _mock_analyze(symptom_text, pet_type),
                         api_calls |-> calls, total_tokens |-> tokens,
                         ran |-> <<"mock">>]
                 ELSE _real_analyze(symptom_text, pet_type, reply, calls,
                                    tokens)
             stored == SymptomCache_set(entries, times, cache_key,
                                        analysis.result, enabled, time)
         IN  IF cached_result # None
               THEN [kind |-> "ok", value |-> cached_result, message |-> "",
                     ran |-> <<"lookup">>,
                     cache |-> entries, timestamps |-> times,
                     api_calls |-> calls, total_tokens |-> tokens]
             ELSE [kind |-> "ok", value |-> Some(analysis.result),
                   message |-> "",
                   ran |-> <<"lookup">> \o analysis.ran \o <<"store">>,
                   cache |-> stored.cache, timestamps |-> stored.timestamps,
                   api_calls |-> analysis.api_calls,
                   total_tokens |-> analysis.total_tokens]

\* The steps of a call in which an analysis was made.
Analyses == { "mock", "request", "request failed" }

\* AISymptomAnalyzer(): an empty cache, api_calls = 0, total_tokens = 0.
\* Config is read from the environment before.
InitAnalyzer ==
    /\ NoLocator
    /\ use_mock_ai \in BOOLEAN
    /\ enable_cache \in BOOLEAN
    /\ now = 0
    /\ cache = EmptyDict
    /\ timestamps = EmptyDict
    /\ api_calls = 0
    /\ total_tokens = 0
    /\ asked = NotAsked
    /\ answer = NoAnswer
    /\ produced = EmptyDict

\* A caller invokes analyze_symptoms. In mock mode there is no client; in
\* real mode the API fails or answers the request, if one is made.
AnalyzeSymptoms ==
    /\ asked = NotAsked
    /\ \E args \in AnalyzerArgs,
          reply \in IF use_mock_ai THEN {NoReply} ELSE ApiReplies :
          LET done == analyze_symptoms(args[1], args[2], reply, cache,
                                       timestamps, api_calls, total_tokens,
                                       use_mock_ai, enable_cache, now)
          IN  /\ reply.ok => api_calls < MaxApiCalls
              /\ asked' = [op |-> "analyze", symptom_text |-> args[1],
                           pet_type |-> args[2], api |-> reply]
              /\ answer' = [kind |-> done.kind, value |-> done.value,
                            message |-> done.message, ran |-> done.ran]
              /\ cache' = done.cache
              /\ timestamps' = done.timestamps
              /\ api_calls' = done.api_calls
              /\ total_tokens' = done.total_tokens
              /\ produced' =
                   IF enable_cache
                      /\ \E i \in DOMAIN done.ran : done.ran[i] \in Analyses
                     THEN Put(produced, args,
                              [value |-> done.value[1], at |-> now])
                   ELSE produced
    /\ UNCHANGED <<locator, use_mock_ai, enable_cache, now>>

NextAnalyzer ==
    \/ AnalyzeSymptoms
    \/ Tick
    \/ SetEnableCache
    \/ TakeAnswer

SpecAnalyzer == InitAnalyzer /\ [][NextAnalyzer]_vars

\* ------------------------------------------------------------- the claims
\* What the claims speak of, stated without the operators of the search.
Searched == pc = "returned" /\ call.op = "search"
Recommended == pc = "returned" /\ call.op = "recommend"

\* A well-formed coordinate: a tuple of two finite numbers.
ValidCoordinate(loc) ==
    /\ loc.type = "tuple"
    /\ Len(loc.items) = 2
    /\ \A i \in 1..2 : IsFinite(loc.items[i])

\* The radius and the rating threshold a call runs with, the defaults being
\* 50 km and 4.0.
EffectiveRadius(c) ==
    IF c.search_radius = None THEN 5000 ELSE c.search_radius[1]
EffectiveRating(c) ==
    IF c.min_rating = None THEN 400 ELSE c.min_rating[1]
RadiusInRange(r) == 100 <= r /\ r <= 10000
RatingInRange(m) == 100 <= m /\ m <= 500
ValidCriteria(c) ==
    /\ ValidCoordinate(c.user_location)
    /\ RadiusInRange(EffectiveRadius(c))
    /\ RatingInRange(EffectiveRating(c))

\* The distance of the stored record i from the coordinate loc.
DistanceOf(i, loc) ==
    calculate_distance(loc.items,
        <<hospitals[i]["latitude"], hospitals[i]["longitude"]>>).d

\* r is the stored record h with the distance d attached and nothing else
\* changed.
Annotates(r, h, d) ==
    /\ DOMAIN r = DOMAIN h \cup {"distance"}
    /\ r["distance"] = d
    /\ \A k \in DOMAIN h \ {"distance"} : r[k] = h[k]

\* list holds, in scan order and once each, the stored records whose index is
\* in idx, each with its distance from loc attached.
IsScanOf(list, idx, loc) ==
    /\ Len(list) = Cardinality(idx)
    /\ \A i \in idx :
          Annotates(list[Cardinality({ j \in idx : j <= i })],
                    hospitals[i], DistanceOf(i, loc))

\* C1: with valid criteria and neither the emergency nor the pet type
\* filter, search returns exactly the records at a distance <= radius with a
\* rating >= minRating (both bounds included), once each, in scan order,
\* each annotated with its computed distance.
C1_SearchReturnsExactlyTheMatches ==
    (/\ Searched
     /\ ValidCriteria(call)
     /\ call.is_emergency = None
     /\ call.pet_type = None)
    => /\ outcome.kind = "ok"
       /\ IsScanOf(outcome.value,
                   { i \in 1..Len(hospitals) :
                       /\ DistanceOf(i, call.user_location) <= EffectiveRadius(call)
                       /\ hospitals[i]["rating"] >= EffectiveRating(call) },
                   call.user_location)

\* A search with valid criteria that kept a record at exactly the radius and
\* a record rated exactly the threshold, and dropped another record.
C1_Witness ==
    /\ Searched
    /\ ValidCriteria(call)
    /\ call.is_emergency = None
    /\ call.pet_type = None
    /\ Len(outcome.value) < Len(hospitals)
    /\ \E k \in DOMAIN outcome.value :
          outcome.value[k]["distance"] = EffectiveRadius(call)
    /\ \E k \in DOMAIN outcome.value :
          outcome.value[k]["rating"] = EffectiveRating(call)

\* The location check lets the call through (a tuple of two items).
PassesLocationCheck(loc) == loc.type = "tuple" /\ Len(loc.items) = 2

\* C2: a search given a radius explicitly (its location passing the location
\* check, which comes first) fails with InvalidRadius if and only if the
\* radius is outside [1, 100]; 1 and 100 are accepted; a failing call
\* returns no hospitals.
C2_InvalidRadiusIffOutOfRange ==
    (/\ Searched
     /\ call.search_radius # None
     /\ PassesLocationCheck(call.user_location))
    => /\ outcome.kind = "InvalidRadius"
            <=> ~RadiusInRange(call.search_radius[1])
       /\ outcome.kind = "InvalidRadius"
            => outcome.value = <<>> /\ outcome.scanned = 0

\* A search of a collection that is not empty was refused for its radius of
\* 101 km.
C2_Witness ==
    /\ Searched
    /\ PassesLocationCheck(call.user_location)
    /\ call.search_radius = Some(10100)
    /\ Len(hospitals) > 0
    /\ outcome.kind = "InvalidRadius"

\* C3: a search given a minimum rating explicitly (its location and radius
\* passing their checks, which come first) fails with InvalidRating if and
\* only if the rating is outside [1.0, 5.0]; 1.0 and 5.0 are accepted; a
\* failing call returns no hospitals.
C3_InvalidRatingIffOutOfRange ==
    (/\ Searched
     /\ call.min_rating # None
     /\ PassesLocationCheck(call.user_location)
     /\ RadiusInRange(EffectiveRadius(call)))
    => /\ outcome.kind = "InvalidRating"
            <=> ~RatingInRange(call.min_rating[1])
       /\ outcome.kind = "InvalidRating"
            => outcome.value = <<>> /\ outcome.scanned = 0

\* A search of a collection that is not empty was refused for its minimum
\* rating of 6.0, its location and radius being valid.
C3_Witness ==
    /\ Searched
    /\ ValidCoordinate(call.user_location)
    /\ RadiusInRange(EffectiveRadius(call))
    /\ call.min_rating = Some(600)
    /\ Len(hospitals) > 0
    /\ outcome.kind = "InvalidRating"

\* C4: a search whose coordinate is not a well-formed pair of finite numbers
\* (wrong arity, no tuple, a component that is no number or not finite) fails
\* with InvalidLocation before any record is scanned.
C4_MalformedLocationIsRefused ==
    (Searched /\ ~ValidCoordinate(call.user_location))
    => outcome.kind = "InvalidLocation" /\ outcome.scanned = 0

\* C5: a recommendation with maxResults <= 0 and valid criteria returns the
\* empty sequence and raises no error.
C5_NonPositiveMaxResultsIsEmpty ==
    (/\ Recommended
     /\ ValidCriteria(call)
     /\ call.max_results # None
     /\ call.max_results[1] <= 0)
    => outcome.kind = "ok" /\ outcome.value = <<>>

\* The search a recommendation starts with: the same location, radius and
\* rating, and no other filter.
SearchOf(c) ==
    get_nearby_hospitals(hospitals, c.user_location, c.search_radius,
                         c.min_rating, None, None)

\* The first k items of s, or all of s when k exceeds its length.
FirstItems(s, k) == [i \in 1..(IF k < Len(s) THEN k ELSE Len(s)) |-> s[i]]

\* C6: for maxResults K >= 1 (5 when omitted) a recommendation is the first
\* min(K, n) entries of sortByDistance(search) when sortBy is "distance" or
\* omitted and of sortByRating(search) when it is "rating", n being the size
\* of the search result; when the search fails, the recommendation fails
\* with the same error.
C6_RecommendIsSortedSearchTruncated ==
    (/\ Recommended
     /\ call.max_results = None \/ call.max_results[1] >= 1
     /\ call.sort_by \in {None, Some("distance"), Some("rating")})
    => LET K == IF call.max_results = None THEN 5 ELSE call.max_results[1]
           search == SearchOf(call)
       IN  IF search.kind # "ok"
             THEN outcome.kind = search.kind /\ outcome.value = <<>>
           ELSE /\ outcome.kind = "ok"
                /\ outcome.value =
                     FirstItems(IF call.sort_by = Some("rating")
                                  THEN sort_by_rating(search.value)
                                  ELSE sort_by_distance(search.value), K)

\* A recommendation with maxResults omitted whose search found six
\* hospitals, not in distance order: five came back.
C6_Witness ==
    /\ Recommended
    /\ call.max_results = None
    /\ call.sort_by = None
    /\ outcome.kind = "ok"
    /\ Len(SearchOf(call).value) = 6
    /\ Len(outcome.value) = 5
    /\ outcome.value[1]["hospital_id"] # SearchOf(call).value[1]["hospital_id"]

\* C7: a search with the radius omitted is the search with radius 50, a
\* search with the minimum rating omitted is the search with minimum rating
\* 4.0, and a radius or rating given explicitly and out of range is never
\* replaced by the default: the call fails.
C7_DefaultsOnlyWhenOmitted ==
    Searched =>
      /\ call.search_radius = None
           => outcome = get_nearby_hospitals(hospitals, call.user_location,
                            Some(5000), call.min_rating, call.is_emergency,
                            call.pet_type)
      /\ call.min_rating = None
           => outcome = get_nearby_hospitals(hospitals, call.user_location,
                            call.search_radius, Some(400), call.is_emergency,
                            call.pet_type)
      /\ (\/ call.search_radius # None /\ ~RadiusInRange(call.search_radius[1])
          \/ call.min_rating # None /\ ~RatingInRange(call.min_rating[1]))
           => outcome.kind \in {"InvalidLocation", "InvalidRadius", "InvalidRating"}

\* A search with both the radius and the rating omitted kept a record at
\* exactly 50 km and a record rated exactly 4.0, and dropped a record.
C7_Witness ==
    /\ Searched
    /\ call.search_radius = None
    /\ call.min_rating = None
    /\ outcome.kind = "ok"
    /\ Len(outcome.value) < Len(hospitals)
    /\ \E k \in DOMAIN outcome.value : outcome.value[k]["distance"] = 5000
    /\ \E k \in DOMAIN outcome.value : outcome.value[k]["rating"] = 400

\* The records of a list, as a set.
Range(s) == { s[i] : i \in DOMAIN s }

\* The search of the last call with its emergency filter replaced by flag.
SearchWithEmergency(flag) ==
    get_nearby_hospitals(hospitals, call.user_location, call.search_radius,
                         call.min_rating, flag, call.pet_type)

\* The emergency flag of a record; a record that carries none offers no
\* emergency service.
IsEmergency(h) == IF "is_emergency" \in DOMAIN h THEN h["is_emergency"] ELSE FALSE

\* C8: for the criteria of any search, the results with isEmergency = true
\* and with isEmergency = false are disjoint, their union is the result with
\* no emergency filter, every record of the first is an emergency hospital
\* and no record of the second is.
C8_EmergencyFilterPartitions ==
    (Searched /\ outcome.kind = "ok")
    => LET all == SearchWithEmergency(None)
           yes == SearchWithEmergency(Some(TRUE))
           no == SearchWithEmergency(Some(FALSE))
       IN  /\ outcome = SearchWithEmergency(call.is_emergency)
           /\ all.kind = "ok" /\ yes.kind = "ok" /\ no.kind = "ok"
           /\ Range(yes.value) \cap Range(no.value) = {}
           /\ Range(yes.value) \cup Range(no.value) = Range(all.value)
           /\ Len(yes.value) + Len(no.value) = Len(all.value)
           /\ \A h \in Range(yes.value) : IsEmergency(h)
           /\ \A h \in Range(no.value) : ~IsEmergency(h)
           /\ call.is_emergency = Some(TRUE)
                => \A h \in Range(outcome.value) : IsEmergency(h)
           /\ call.is_emergency = Some(FALSE)
                => \A h \in Range(outcome.value) : ~IsEmergency(h)

\* A search for hospitals without emergency service returned some records,
\* one of them carrying no emergency flag, and left out an emergency
\* hospital that the search with no emergency filter returns.
C8_Witness ==
    /\ Searched
    /\ outcome.kind = "ok"
    /\ call.is_emergency = Some(FALSE)
    /\ \E h \in Range(outcome.value) : "is_emergency" \notin DOMAIN h
    /\ \E h \in Range(outcome.value) : "is_emergency" \in DOMAIN h
    /\ Len(SearchWithEmergency(Some(TRUE)).value) > 0

\* The specialties of h hold tag, letter case ignored.
HasSpecialty(h, tag) ==
    /\ "specialties" \in DOMAIN h
    /\ \E i \in DOMAIN h["specialties"] : Lower(h["specialties"][i]) = tag

\* list is the subsequence of base made of the items at the indices idx.
IsSubsequenceAt(list, base, idx) ==
    /\ Len(list) = Cardinality(idx)
    /\ \A i \in idx : list[Cardinality({ j \in idx : j <= i })] = base[i]

\* C9: with petType "dog" (resp. "cat") a search keeps a record that passes
\* the other predicates if and only if its specialties, letter case ignored,
\* hold "canine" (resp. "feline") or "general"; a record with neither, or
\* with no specialties, is left out, and no error is raised.
C9_PetTypeKeepsMatchingSpecialties ==
    (Searched /\ call.pet_type \in {Some("dog"), Some("cat")})
    => LET tag == IF call.pet_type = Some("dog") THEN "canine" ELSE "feline"
           others == get_nearby_hospitals(hospitals, call.user_location,
                         call.search_radius, call.min_rating,
                         call.is_emergency, None)
       IN  /\ outcome.kind = others.kind
           /\ IsSubsequenceAt(outcome.value, others.value,
                  { i \in DOMAIN others.value :
                      \/ HasSpecialty(others.value[i], tag)
                      \/ HasSpecialty(others.value[i], "general") })

\* The search of the last call without its pet type filter.
SearchWithoutPetType ==
    get_nearby_hospitals(hospitals, call.user_location, call.search_radius,
                         call.min_rating, call.is_emergency, None)

\* A search for a dog kept a record whose tag is spelled "Canine" and a
\* record tagged "general", and left out two records that pass the other
\* predicates: one with other specialties and one with none.
C9_Witness ==
    /\ Searched
    /\ call.pet_type = Some("dog")
    /\ outcome.kind = "ok"
    /\ \E h \in Range(outcome.value) : Get(h, "specialties", <<>>) = <<"Canine">>
    /\ \E h \in Range(outcome.value) : Get(h, "specialties", <<>>) = <<"general">>
    /\ \E h \in Range(SearchWithoutPetType.value) \ Range(outcome.value) :
          "specialties" \notin DOMAIN h
    /\ \E h \in Range(SearchWithoutPetType.value) \ Range(outcome.value) :
          Get(h, "specialties", <<>>) = <<"exotic", "FELINE">>

SortedByDistance == pc = "returned" /\ call.op = "sort_by_distance"

\* The distance a list entry is ordered by.
DistanceKm(h) == IF "distance" \in DOMAIN h THEN h["distance"] ELSE PosInf

\* out holds the items of in, each as often as in does.
IsPermutation(out, in) ==
    /\ Len(out) = Len(in)
    /\ \A x \in Range(in) \cup Range(out) :
          Cardinality({ i \in DOMAIN in : in[i] = x })
            = Cardinality({ i \in DOMAIN out : out[i] = x })

\* The place in out of the item at place i of in, counting equal items in
\* their order of appearance.
PlaceIn(out, in, i) ==
    LET nth == Cardinality({ j \in 1..i : in[j] = in[i] })
    IN  CHOOSE k \in DOMAIN out :
          /\ out[k] = in[i]
          /\ Cardinality({ j \in 1..k : out[j] = in[i] }) = nth

\* C10: sortByDistance returns a permutation of its input that is
\* non-decreasing in distanceKm, entries with equal distanceKm keeping their
\* input order, and leaves the input list unchanged. (Distances are
\* numbers: a list of NaN distances has no order to speak of.)
C10_SortByDistanceIsStableAscending ==
    (SortedByDistance /\ \A h \in Range(call.list) : DistanceKm(h) # NaN)
    => /\ IsPermutation(outcome.value, call.list)
       /\ \A i \in 1..(Len(outcome.value) - 1) :
             DistanceKm(outcome.value[i]) <= DistanceKm(outcome.value[i + 1])
       /\ \A i, j \in DOMAIN call.list :
             (i < j /\ DistanceKm(call.list[i]) = DistanceKm(call.list[j]))
             => PlaceIn(outcome.value, call.list, i)
                  < PlaceIn(outcome.value, call.list, j)
       /\ held = call.list

\* sortByDistance was given a list that was not in distance order and held
\* two entries at the same distance.
C10_Witness ==
    /\ SortedByDistance
    /\ \A h \in Range(call.list) : DistanceKm(h) # NaN
    /\ outcome.value # call.list
    /\ \E i, j \in DOMAIN call.list :
          /\ i < j
          /\ DistanceKm(call.list[i]) = DistanceKm(call.list[j])
    /\ \E i \in DOMAIN call.list :
          outcome.value[i]["hospital_id"] # call.list[i]["hospital_id"]

SortedByRating == pc = "returned" /\ call.op = "sort_by_rating"

\* C11: sortByRating returns a permutation of its input that is
\* non-increasing in rating, entries with equal rating keeping their input
\* (scan) order rather than appearing reversed, and leaves the input list
\* unchanged.
C11_SortByRatingIsStableDescending ==
    SortedByRating
    => /\ IsPermutation(outcome.value, call.list)
       /\ \A i \in 1..(Len(outcome.value) - 1) :
             outcome.value[i]["rating"] >= outcome.value[i + 1]["rating"]
       /\ \A i, j \in DOMAIN call.list :
             (i < j /\ call.list[i]["rating"] = call.list[j]["rating"])
             => PlaceIn(outcome.value, call.list, i)
                  < PlaceIn(outcome.value, call.list, j)
       /\ held = call.list

\* sortByRating was given a list that was not in rating order and held two
\* entries with the same rating.
C11_Witness ==
    /\ SortedByRating
    /\ outcome.value # call.list
    /\ \E i, j \in DOMAIN call.list :
          i < j /\ call.list[i]["rating"] = call.list[j]["rating"]

Filtered == pc = "returned" /\ call.op = "filter_by_rating"

\* C12: filterByRating(list, minRating) returns the subsequence of list, in
\* the original order, of exactly the entries with rating >= minRating; it
\* adds no entry, changes no distanceKm, and its result is no longer than
\* its input.
C12_FilterByRatingIsSubsequence ==
    Filtered
    => /\ IsSubsequenceAt(outcome.value, call.list,
              { i \in DOMAIN call.list :
                  call.list[i]["rating"] >= call.min_rating })
       /\ Range(outcome.value) \subseteq Range(call.list)
       /\ Len(outcome.value) <= Len(call.list)

\* filterByRating kept an entry rated exactly the threshold, with its
\* distance, and dropped an entry rated below it.
C12_Witness ==
    /\ Filtered
    /\ \E h \in Range(outcome.value) :
          h["rating"] = call.min_rating /\ "distance" \in DOMAIN h
    /\ Len(outcome.value) < Len(call.list)

\* The valid radii and rating thresholds the searches are compared at.
ValidRadii == { 100, 5000, 10000 }
ValidRatings == { 100, 400, 500 }

\* The search of the last call with its radius replaced by r.
SearchAtRadius(r) ==
    get_nearby_hospitals(hospitals, call.user_location, Some(r),
                         call.min_rating, call.is_emergency, call.pet_type)

\* The search of the last call with its minimum rating replaced by m.
SearchAtRating(m) ==
    get_nearby_hospitals(hospitals, call.user_location, call.search_radius,
                         Some(m), call.is_emergency, call.pet_type)

\* C13: for a fixed coordinate, minimum rating and optional filters and
\* valid radii R1 < R2, the search at R1 returns at most as many results as
\* the search at R2.
C13_RadiusMonotone ==
    (Searched /\ ValidCriteria(call))
    => \A R2 \in ValidRadii :
         EffectiveRadius(call) < R2
         => /\ SearchAtRadius(R2).kind = "ok"
            /\ Len(outcome.value) <= Len(SearchAtRadius(R2).value)

\* A search at 1 km found a hospital and the same search at 100 km finds
\* more.
C13_Witness ==
    /\ Searched
    /\ ValidCriteria(call)
    /\ call.search_radius = Some(100)
    /\ Len(outcome.value) > 0
    /\ Len(outcome.value) < Len(SearchAtRadius(10000).value)

\* C14: for a fixed coordinate, radius and optional filters and valid
\* thresholds T1 < T2, the search at minRating T1 returns at least as many
\* results as the search at T2.
C14_RatingMonotone ==
    (Searched /\ ValidCriteria(call))
    => \A T2 \in ValidRatings :
         EffectiveRating(call) < T2
         => /\ SearchAtRating(T2).kind = "ok"
            /\ Len(outcome.value) >= Len(SearchAtRating(T2).value)

\* A search at minimum rating 1.0 found more hospitals than the same search
\* at 5.0, which finds one.
C14_Witness ==
    /\ Searched
    /\ ValidCriteria(call)
    /\ call.min_rating = Some(100)
    /\ Len(SearchAtRating(500).value) > 0
    /\ Len(outcome.value) > Len(SearchAtRating(500).value)

\* The stored record i satisfies the criteria of the call c: it is within
\* the radius, rated at least the threshold, and passes the emergency and
\* pet type filters when c has them.
Satisfies(i, c) ==
    /\ DistanceOf(i, c.user_location) <= EffectiveRadius(c)
    /\ hospitals[i]["rating"] >= EffectiveRating(c)
    /\ c.op = "search"
         => /\ c.is_emergency # None
                 => IsEmergency(hospitals[i]) = c.is_emergency[1]
            /\ c.pet_type = Some("dog")
                 => \/ HasSpecialty(hospitals[i], "canine")
                    \/ HasSpecialty(hospitals[i], "general")
            /\ c.pet_type = Some("cat")
                 => \/ HasSpecialty(hospitals[i], "feline")
                    \/ HasSpecialty(hospitals[i], "general")

\* C15: a search or recommendation with valid criteria never ends in an
\* error, and returns the empty sequence when no record satisfies the
\* criteria (the empty collection included); an error occurs only for
\* invalid criteria.
C15_EmptyResultIsNotAnError ==
    (Searched \/ Recommended)
    => /\ ValidCriteria(call) => outcome.kind = "ok"
       /\ (/\ ValidCriteria(call)
            /\ \A i \in DOMAIN hospitals : ~Satisfies(i, call))
           => outcome.value = <<>>
       /\ outcome.kind # "ok" => ~ValidCriteria(call)

\* A search with valid criteria of a collection that is not empty found
\* nothing and returned the empty sequence.
C15_Witness ==
    /\ Searched
    /\ ValidCriteria(call)
    /\ Len(hospitals) > 0
    /\ \A i \in DOMAIN hospitals : ~Satisfies(i, call)
    /\ outcome.kind = "ok"
    /\ outcome.value = <<>>

\* No stored record has a distance field.
NoStoredDistance ==
    \A i \in DOMAIN hospitals : "distance" \notin DOMAIN hospitals[i]

\* C16: after construction the hospital collection is never modified: no
\* call, failed or not, changes its records, their order or their field
\* values, and no stored record gains a distance field.
C16_CollectionIsNeverModified ==
    /\ []NoStoredDistance
    /\ [][hospitals' = hospitals]_vars

\* A search returned records annotated with their distance, one of them was
\* formatted, and the stored records have no distance.
C16_Witness ==
    /\ pc = "returned"
    /\ call.op = "format_hospital_info"
    /\ call.hospital \notin { hospitals[i] : i \in DOMAIN hospitals }
    /\ outcome.value[1].distance # None
    /\ Len(hospitals) > 1
    /\ NoStoredDistance

\* The collection the source holds: its "hospitals" member, none without.
SourceCollection(src) == Get(src.data, "hospitals", <<>>)

\* C17: with the scans of concurrent searches interleaved record by record
\* in any order, each call ends with exactly the outcome it has when run
\* alone, and the shared collection never differs from its value at
\* construction.
C17_ConcurrentSearchesDoNotInterfere ==
    /\ \A t \in DOMAIN threads :
          threads[t].phase = "done"
          => threads[t].outcome =
               get_nearby_hospitals(SourceCollection(source),
                   threads[t].criteria[1], threads[t].criteria[2],
                   threads[t].criteria[3], threads[t].criteria[4],
                   threads[t].criteria[5])
    /\ threads # NoThreads => hospitals = SourceCollection(source)

\* One caller has ended with the hospital it found while another, searching
\* by other criteria, is in the middle of its scan and has kept a record.
C17_Witness ==
    /\ threads # NoThreads
    /\ \E t, u \in DOMAIN threads :
          /\ threads[t].phase = "done"
          /\ threads[t].outcome.kind = "ok"
          /\ Len(threads[t].outcome.value) > 0
          /\ threads[u].phase = "scanning"
          /\ threads[u].criteria # threads[t].criteria
          /\ threads[u].i > 1
          /\ threads[u].i <= Len(hospitals)
          /\ Len(threads[u].nearby_hospitals) > 0

\* The source exists but open() or json.load() or data.get() fails on it.
NotADataset(src) ==
    src.kind \in { "directory", "unreadable", "malformed", "array" }

Constructed == call.op = "construct"

\* C18 as stated: construction fails with DataSourceNotFound
\* (FileNotFoundError) whenever the source is missing or exists but cannot
\* be read as a dataset.
C18_UnreadableSourceIsNotFound ==
    (Constructed /\ (source.kind = "missing" \/ NotADataset(source)))
    => (pc = "failed" /\ outcome.kind = "FileNotFoundError")

\* C18 as amended: construction fails with FileNotFoundError exactly when
\* the source is missing and with another exception when it exists but is
\* not a readable JSON object; after a failure there is no instance and no
\* call ever runs; an instance exists only with the whole collection of the
\* source loaded.
C18_ConstructionFailsClosed ==
    /\ [](Constructed
           => /\ source.kind = "missing"
                   => (pc = "failed" /\ outcome.kind = "FileNotFoundError")
              /\ NotADataset(source)
                   => /\ pc = "failed"
                      /\ outcome.kind \in { "IsADirectoryError",
                            "PermissionError", "JSONDecodeError",
                            "AttributeError" }
              /\ source.kind = "object" => pc = "idle")
    /\ [](pc \in { "idle", "returned" }
           => (source.kind = "object" /\ hospitals = SourceCollection(source)))
    /\ [](pc \in { "new", "failed" }
           => (hospitals = <<>> /\ ~Searched /\ ~Recommended))
    /\ [][pc = "failed" => pc' = "failed"]_vars

\* The constructor raised on a file that exists and is not JSON, with an
\* exception other than FileNotFoundError.
C18_Witness ==
    /\ Constructed
    /\ pc = "failed"
    /\ source.kind = "malformed"
    /\ outcome.kind = "JSONDecodeError"

\* C19: the outcome of a search or recommendation depends only on its
\* arguments and the dataset the source holds, whatever calls were made
\* before it, failed ones included.
C19_OutcomeIgnoresHistory ==
    /\ Searched
         => outcome = get_nearby_hospitals(SourceCollection(source), call.user_location,
                          call.search_radius, call.min_rating,
                          call.is_emergency, call.pet_type)
    /\ Recommended
         => outcome = get_recommendations(SourceCollection(source), call.user_location,
                          call.search_radius, call.min_rating,
                          call.max_results, call.sort_by)

\* A search found hospitals after earlier calls that succeeded and earlier
\* calls that failed each of the three validations.
C19_Witness ==
    /\ Searched
    /\ outcome.kind = "ok"
    /\ Len(outcome.value) > 1
    /\ { "ok", "InvalidLocation", "InvalidRadius", "InvalidRating" }
         \subseteq earlier

\* A location with finite components.
FiniteLocation(loc) == IsFinite(loc[1]) /\ IsFinite(loc[2])

Measured == pc = "returned" /\ call.op = "calculate_distance"

C25_FirstFailureIsReported ==
    Searched
    => /\ (/\ ~ValidCoordinate(call.user_location)
            /\ \/ ~RadiusInRange(EffectiveRadius(call))
               \/ ~RatingInRange(EffectiveRating(call)))
           => outcome.kind = "InvalidLocation"
       /\ (/\ ValidCoordinate(call.user_location)
            /\ ~RadiusInRange(EffectiveRadius(call))
            /\ ~RatingInRange(EffectiveRating(call)))
           => outcome.kind = "InvalidRadius"

\* The search of the last call with its two optional filters replaced.
SearchWithFilters(flag, pet) ==
    get_nearby_hospitals(hospitals, call.user_location, call.search_radius,
                         call.min_rating, flag, pet)

\* C26: the predicates of a search are independent and conjunctive: with
\* valid criteria the result with isEmergency = e and petType = p is exactly
\* the subsequence of the result with neither filter whose records are in
\* the result with isEmergency = e alone and in the result with petType = p
\* alone, and a filter never adds a record.
C26_FiltersAreConjunctive ==
    (Searched /\ ValidCriteria(call))
    => LET neither == SearchWithFilters(None, None).value
           emergency == Range(SearchWithFilters(call.is_emergency, None).value)
           pet == Range(SearchWithFilters(None, call.pet_type).value)
       IN  /\ IsSubsequenceAt(outcome.value, neither,
                  { i \in DOMAIN neither :
                       neither[i] \in emergency /\ neither[i] \in pet })
           /\ emergency \subseteq Range(neither)
           /\ pet \subseteq Range(neither)
           /\ Range(outcome.value) \subseteq emergency \cap pet

\* A search with both filters found a hospital, and fewer hospitals than
\* the search with either filter alone.
C26_Witness ==
    /\ Searched
    /\ ValidCriteria(call)
    /\ call.is_emergency # None
    /\ call.pet_type \in { Some("dog"), Some("cat") }
    /\ Len(outcome.value) > 0
    /\ Len(outcome.value) < Len(SearchWithFilters(call.is_emergency, None).value)
    /\ Len(outcome.value) < Len(SearchWithFilters(None, call.pet_type).value)

\* C27: a petType other than exactly "dog" or "cat" ("bird", or "Dog" in
\* another letter case) filters nothing and raises no error: the outcome is
\* that of the same search with petType omitted.
C27_UnknownPetTypeFiltersNothing ==
    (Searched /\ call.pet_type \notin { None, Some("dog"), Some("cat") })
    => /\ outcome = SearchWithoutPetType
       /\ ValidCriteria(call) => outcome.kind = "ok"

\* A search for a "Dog" returned a hospital that the same search for a
\* "dog" leaves out.
C27_Witness ==
    /\ Searched
    /\ call.pet_type = Some("Dog")
    /\ outcome.kind = "ok"
    /\ Range(outcome.value)
         \ Range(SearchWithFilters(call.is_emergency, Some("dog")).value) # {}

\* A location on the globe: latitude in [-90, 90], longitude in [-180, 180].
OnGlobe(loc) ==
    /\ FiniteLocation(loc)
    /\ -90000000 <= loc[1] /\ loc[1] <= 90000000
    /\ -180000000 <= loc[2] /\ loc[2] <= 180000000

Refs(list) == { list[k]["ref"] : k \in DOMAIN list }

\* C28: every record a search or recommendation returns is a fresh copy:
\* it is no stored record and no record of another list of the call or of
\* an earlier call, so that a write to a top-level field of a returned
\* record changes no stored record and no result of a later call.
C28_ReturnedRecordsAreFreshCopies ==
    /\ \A ref \in Refs(outcome.value) \cup Refs(held) : ref.heap # "stored"
    /\ Cardinality(Refs(outcome.value)) = Len(outcome.value)
    /\ Refs(outcome.value) \cap Refs(held) = {}
    /\ call.op \in { "search", "recommend", "edit" }
         => hospitals = SourceCollection(source)
    /\ Searched
         => Values(outcome.value)
              = get_nearby_hospitals(SourceCollection(source),
                    call.user_location, call.search_radius, call.min_rating,
                    None, None).value
    /\ Recommended
         => Values(outcome.value)
              = get_recommendations(SourceCollection(source),
                    call.user_location, call.search_radius, call.min_rating,
                    call.max_results, call.sort_by).value

\* The caller set the rating of a record it kept to 0, and a later search
\* returned that hospital with the rating it is stored with.
C28_Witness ==
    /\ Searched
    /\ \E k \in DOMAIN held, j \in DOMAIN outcome.value, i \in DOMAIN hospitals :
          /\ held[k]["hospital_id"] = hospitals[i]["hospital_id"]
          /\ outcome.value[j]["hospital_id"] = hospitals[i]["hospital_id"]
          /\ held[k]["rating"] = 0
          /\ "visited" \in DOMAIN held[k]
          /\ outcome.value[j]["rating"] = hospitals[i]["rating"]
          /\ outcome.value[j]["rating"] > 0

\* ------------------------------------------------------------------- C29
\* The entry a get of the key is expected to serve: the value of the last
\* set made for the key while caching was enabled, as long as caching is
\* enabled and less than CACHE_DURATION seconds have passed since that set.
Served(key) ==
    IF enable_cache /\ key \in DOMAIN produced
       /\ now - produced[key].at < CACHE_DURATION
      THEN Some(produced[key].value)
    ELSE None

\* Claim C29: SymptomCache.get returns a stored entry only while its age is
\* strictly less than CACHE_DURATION; from the age CACHE_DURATION on it
\* returns nothing for the key until a later set of the key, from whose time
\* the age is counted anew; with caching disabled get returns nothing and set
\* stores nothing (the dicts hold exactly what was set while caching was
\* enabled, with the time of that set).
C29_GetServesOnlyFreshEntries ==
    /\ asked.op = "get" => answer.value = Served(asked.key)
    /\ DOMAIN cache = DOMAIN produced
    /\ DOMAIN timestamps = DOMAIN produced
    /\ \A key \in DOMAIN produced :
          /\ cache[key] = produced[key].value
          /\ timestamps[key] = produced[key].at

\* A get at the very age CACHE_DURATION of an entry that was set again after
\* the clock had advanced returns nothing, caching being enabled.
C29_Witness ==
    /\ asked.op = "get"
    /\ enable_cache
    /\ asked.key \in DOMAIN produced
    /\ produced[asked.key].at > 0
    /\ now - produced[asked.key].at = CACHE_DURATION
    /\ answer.value = None

\* ---------------------------------------------------------- C22 to C24, C30
\* The request of a call of analyze_symptoms: its text and its pet type.
Request(a) == <<a.symptom_text, a.pet_type>>

\* An analysis was made for the request, caching being enabled, less than
\* CACHE_DURATION seconds ago.
FreshlyProduced(req) ==
    req \in DOMAIN produced /\ now - produced[req].at < CACHE_DURATION

\* The call of analyze_symptoms made an analysis.
AnalysisRan(a) == \E i \in DOMAIN a.ran : a.ran[i] \in Analyses

\* Claim C22: with caching enabled, a call of analyze_symptoms with the text
\* and pet type of a call that made an analysis less than CACHE_DURATION
\* seconds before returns the result of that call and makes no analysis: it
\* runs the lookup only and leaves the counters as they are.
C22_RepeatedCallIsServedFromCache ==
    [][ ( /\ asked = NotAsked
          /\ asked'.op = "analyze"
          /\ enable_cache
          /\ FreshlyProduced(Request(asked')) )
        => ( /\ answer'.kind = "ok"
             /\ answer'.value = Some(produced[Request(asked')].value)
             /\ answer'.ran = <<"lookup">>
             /\ api_calls' = api_calls
             /\ total_tokens' = total_tokens ) ]_vars

\* In real mode, one second before the duration has passed, a repeated
\* request is answered with the earlier result by the lookup alone although
\* the API would have answered.
C22_Witness ==
    /\ asked.op = "analyze"
    /\ ~use_mock_ai
    /\ enable_cache
    /\ asked.api.ok
    /\ Request(asked) \in DOMAIN produced
    /\ now - produced[Request(asked)].at = CACHE_DURATION - 1
    /\ answer.value = Some(produced[Request(asked)].value)
    /\ answer.value[1].mode = "real_api"
    /\ answer.ran = <<"lookup">>

\* Claim C23: analyze_symptoms with an empty or whitespace-only text raises
\* the ValueError "Symptom text cannot be empty" before any lookup or
\* analysis, and leaves the cache, api_calls and total_tokens as they were.
C23_BlankTextIsRejectedFirst ==
    /\ [](asked.op = "analyze" /\ asked.symptom_text \in BlankTexts
            => /\ answer.kind = "ValueError"
               /\ answer.message = "Symptom text cannot be empty"
               /\ answer.ran = <<>>)
    /\ [][ ( /\ asked = NotAsked
             /\ asked'.op = "analyze"
             /\ asked'.symptom_text \in BlankTexts )
           => ( /\ cache' = cache
                /\ timestamps' = timestamps
                /\ api_calls' = api_calls
                /\ total_tokens' = total_tokens ) ]_vars

\* A whitespace-only text is rejected by an analyzer in real mode whose
\* cache holds an entry and whose API would have answered.
C23_Witness ==
    /\ asked.op = "analyze"
    /\ asked.symptom_text = "   "
    /\ answer.kind = "ValueError"
    /\ ~use_mock_ai
    /\ enable_cache
    /\ asked.api.ok
    /\ cache # EmptyDict

C30_FailedRequestFallsBackToCachedMock ==
    /\ [](asked.op = "analyze" /\ ~use_mock_ai /\ ~asked.api.ok
            /\ AnalysisRan(answer)
            => LET fallback == _mock_analyze(asked.symptom_text,
                                             asked.pet_type)
                   key == CacheKey(asked.symptom_text, asked.pet_type)
               IN  /\ answer.kind = "ok"
                   /\ answer.value = Some(fallback)
                   /\ fallback.mode = "mock"
                   /\ enable_cache => /\ key \in DOMAIN cache
                                      /\ cache[key] = fallback
                                      /\ timestamps[key] = now)
    /\ [][ ( /\ asked = NotAsked
             /\ asked'.op = "analyze"
             /\ ~use_mock_ai
             /\ enable_cache
             /\ FreshlyProduced(Request(asked'))
             /\ produced[Request(asked')].value.mode = "mock" )
           => ( /\ answer'.value = Some(produced[Request(asked')].value)
                /\ \A i \in DOMAIN answer'.ran :
                      answer'.ran[i] \notin { "request", "request failed" }
                /\ api_calls' = api_calls ) ]_vars

\* After a failed request, the same request is made again within the
\* duration while the API would answer: the mock result is returned by the
\* lookup and no request has ever been answered.
C30_Witness ==
    /\ asked.op = "analyze"
    /\ ~use_mock_ai
    /\ enable_cache
    /\ asked.api.ok
    /\ answer.ran = <<"lookup">>
    /\ answer.value # None
    /\ answer.value[1].mode = "mock"
    /\ Request(asked) \in DOMAIN produced
    /\ now - produced[Request(asked)].at = CACHE_DURATION - 1
    /\ api_calls = 0

====
